---- MODULE Spec2Model ----
(***************************************************************************)
(* SV-Bounties: the per-guild ADM log poller (tracer/log_fetcher.py), its  *)
(* persisted cursor (tracer/adm_state.py) and its two de-duplication       *)
(* layers (the rolling fingerprint set of poll_guild and AdmBuffer).       *)
(*                                                                         *)
(* The FTP server is the environment: it owns the log files, appends to    *)
(* the newest one, starts a new one (rollover) and may truncate one.       *)
(* A file is a sequence of bytes; a byte is a one-character string.        *)
(* Files are named 1, 2, ... in the order of the timestamps embedded in    *)
(* their names (DayZServer_x1_x64_<timestamp>.ADM); 0 is "no file" (None). *)
(***************************************************************************)
EXTENDS Integers, Sequences, FiniteSets, TLC

\* ------------------------------------------------------------------ bounds
\* the number of things the environment does in a run: the server's appends,
\* rollovers and truncations, the stops and the restarts of the process
MaxEvents == 3
\* the number of times the gateway session becomes ready (on_ready fires)
MaxReady == 2
\* the number of tracker calls and clock steps in a run
MaxCalls == 6
\* the number of append_point calls in a burst for one player
MaxBurst == 11
\* the number of updater and watcher ticks in a run
MaxTicks == 6
\* the number of lines and PlayerList blocks the server logs in a run
MaxLog == 6
\* the number of lines the server writes to the ADM file in a run
MaxAdm == 6
\* the limit of _read_adm_lines, 5000 in the code: the lines of the tail
limit == 4
\* the number of lines with a fingerprint of their own handed to _remember_line
MaxFed == 4002
MaxRuns == 5
MaxKills == 2
MaxBounties == 2
MaxInits == 3
MaxPoints == 4

\* ------------------------------------------------------- program constants
MAX_SEEN_HASHES == 4000
max_remember == 200
_FLUSH_INTERVAL == 15
_MAX_BUFFER_POINTS == 10
\* tracer.config.MAX_POINTS_PER_PLAYER: the cap of a stored track; its value
\* is set outside the files at hand, a small one is taken
MAX_POINTS_PER_PLAYER == 3
PL_ABSENCE_THRESHOLD == 2
STALE_MOVEMENT_SCANS == 3

NL == "\n"
SP == " "
\* the bytes the server appends while the poller runs
Alphabet == {"a", SP, NL}

\* what the newest log file may hold when the poller starts
InitialContents == {<<>>, <<"a", NL, "b", NL>>}

VARIABLES
    files,          \* server: files[n] = bytes of the log file named n
    events,         \* environment steps so far (bounds the run)
    state,          \* data/adm_state.json entry of the guild
    latest_file,    \* poll_guild local
    offset,         \* poll_guild local
    seen_set,       \* poll_guild local: recent fingerprints
    seen_queue,     \* poll_guild local: the same, in insertion order
    buffer_last,    \* AdmBuffer.last
    pc,             \* position of poll_guild: top, read, deliver, sleep, done
    stop_event,     \* asyncio.Event of the guild
    chosen_api_url, \* tick local: TRUE when the API's file was chosen
    prev_offset,    \* tick local
    lines,          \* tick local: text.splitlines()
    idx,            \* tick local: lines[1..idx] are done
    delivered,      \* history: the calls of the line callback, in order
    readLog,        \* history: lines of the blobs whose read moved the cursor
    cursorLog,      \* history: the values set_guild_state persisted
    observe,        \* which histories are recorded: off, lines, scenario
    cfg_guilds,     \* bot: guilds with an entry in data/ftp_config.json
    poll_stops,     \* bot: guilds with a stop event in poll_stops
    stopped,        \* bot: guilds whose stop event is set
    loops,          \* bot: loops[g] = the phase of each poll_guild task of g
    starting,       \* bot: start_polls tasks created and not yet run
    readies,        \* bot: the number of on_ready events so far
    listing,        \* discovery alone: what the listings and the API show
    choice,         \* discovery alone: <<chosen_name>> once chosen
    tracks,         \* tracker: tracks[pid] = doc["points"] of the track file
    _buffers,       \* tracker: _buffers[pid] = the queued points
    _last_flush_ts, \* tracker: time of the last _flush_maybe that flushed
    now,            \* tracker: time.time()
    accepted,       \* history: accepted[pid] = points append_point queued
    last_call,      \* history: the last call of append_point or load_track
    calls,          \* tracker: calls and clock steps so far (bounds the run)
    tasks,          \* tracker: the _notify_point tasks created and not yet run
    notified,       \* history: the last _notify_point that ran
    bounty,         \* bounty: the open bounty record b of the target
    adm,            \* bounty: what the ADM log tail shows of the target
    announced,      \* history: the online/offline announcements, in order
    ticks,          \* bounty: updater and watcher ticks so far (bounds the run)
    observed,       \* history: the last tick and the log it read
    ln,             \* parsing: one ADM log line, a sequence of characters
    parsed,         \* parsing: the events each consumer of the line made of it
    admfile,        \* PlayerList: the non-empty lines of the chosen ADM file
    pl_now,         \* PlayerList: what the last read made of the tail
    pl_prev,        \* PlayerList: what the read before it made of the tail
    fed,            \* history: the lines handed to _remember_line alone
    db_open,        \* database: doc["open"] of data/bounties.json
    u_doc,          \* database: <<doc["open"]>> of an update_guild run at an await
    w_doc,          \* database: the same, of a check_kills_and_status run
    kill_lines,     \* database: the kill lines of the log tail, oldest first
    awards,         \* history: the bounties paid out, in order
    created,        \* history: created[t] = the bounties set on target t so far
    db_runs,        \* database: runs and commands so far (bounds the run)
    point_subs,     \* live_pulse: tracker._point_subscribers, as it grows
    pulse_bot,      \* live_pulse: TRUE once _bot is set
    pending,        \* live_pulse: the _notify_point tasks not yet run
    invoked,        \* history: per notified point, the callbacks it called
    pl_entry        \* parsing: <<what _latest_playerlist made of the line>>

serverVars == <<files>>
pollVars == <<state, latest_file, offset, seen_set, seen_queue, buffer_last,
              pc, stop_event>>
tickVars == <<chosen_api_url, prev_offset, lines, idx>>
histVars == <<delivered, readLog, cursorLog, observe>>
pollerVars == <<serverVars, events, pollVars, tickVars, histVars>>
botVars == <<cfg_guilds, poll_stops, stopped, loops, starting, readies>>
chooseVars == <<listing, choice>>
trackVars == <<tracks, _buffers, _last_flush_ts, now, accepted, last_call, calls,
               tasks, notified>>
bountyVars == <<bounty, adm, announced, ticks, observed>>
parseVars == <<ln, parsed>>
plVars == <<admfile, pl_now, pl_prev>>
dbVars == <<db_open, u_doc, w_doc, kill_lines, awards, created, db_runs>>
pulseVars == <<point_subs, pulse_bot, pending, invoked>>
lateVars == <<plVars, fed, dbVars, pulseVars, pl_entry>>
restVars == <<botVars, chooseVars, trackVars, bountyVars, parseVars, lateVars>>
vars == <<pollerVars, restVars>>

\* the guilds the bot is a member of
Guilds == {1, 2}

\* the player ids of the tracker, and the (x, z) pairs of the points
Players == {"p1", "p2"}
XZ == {1, 2}

\* ------------------------------------------------------------ pure helpers
None == <<>>

\* bytes s[k..] (Python s[k:] with 0-based k)
Tail0(s, k) == SubSeq(s, k + 1, Len(s))

\* index of the first NL of s, 0 when there is none
FirstNL(s) ==
    IF \E i \in 1..Len(s) : s[i] = NL
    THEN CHOOSE i \in 1..Len(s) : s[i] = NL /\ \A j \in 1..(i - 1) : s[j] # NL
    ELSE 0

RECURSIVE splitlines(_)
splitlines(s) ==
    IF s = <<>> THEN <<>>
    ELSE LET k == FirstNL(s)
         IN  IF k = 0 THEN <<s>>
             ELSE <<SubSeq(s, 1, k - 1)>> \o splitlines(Tail0(s, k))

\* str.rstrip(): drop trailing whitespace
RECURSIVE rstrip(_)
rstrip(s) ==
    IF s # <<>> /\ s[Len(s)] \in {SP, NL}
    THEN rstrip(SubSeq(s, 1, Len(s) - 1))
    ELSE s

\* str.rstrip("\r\n"): drop trailing line ends only
RECURSIVE rstrip_eol(_)
rstrip_eol(s) ==
    IF s # <<>> /\ s[Len(s)] = NL
    THEN rstrip_eol(SubSeq(s, 1, Len(s) - 1))
    ELSE s

\* blake2b over the right-stripped text; the digest is taken to be injective
_line_fingerprint(s) == rstrip(s)

\* mutant: the fingerprint is queued but not added to the set
_remember_line_forgetful(line, sset, squeue) ==
    [ok |-> TRUE, sset |-> sset, squeue |-> squeue]

\* poll_guild._remember_line on (seen_set, seen_queue)
_remember_line(line, sset, squeue) ==
    LET fp == _line_fingerprint(line)
    IN  IF fp \in sset
        THEN [ok |-> FALSE, sset |-> sset, squeue |-> squeue]
        ELSE LET q1 == Append(squeue, fp)
                 s1 == sset \cup {fp}
             IN  IF Len(q1) > MAX_SEEN_HASHES
                 THEN [ok |-> TRUE, sset |-> s1 \ {Head(q1)}, squeue |-> Tail(q1)]
                 ELSE [ok |-> TRUE, sset |-> s1, squeue |-> q1]

\* AdmBuffer.accept on deque(maxlen=max_remember)
accept(line, last) ==
    LET l == rstrip_eol(line)
    IN  IF l = <<>> THEN [ok |-> FALSE, last |-> last]
        ELSE IF \E i \in 1..Len(last) : last[i] = l
             THEN [ok |-> FALSE, last |-> last]
             ELSE LET a == Append(last, l)
                  IN  [ok |-> TRUE,
                       last |-> IF Len(a) > max_remember THEN Tail(a) ELSE a]

\* mutant: the entry keeps its old offset
set_guild_state_file_only(st, f, o) == [st EXCEPT !.latest_file = f]

\* adm_state.set_guild_state(guild_id, latest_file=f, offset=o) on the entry
set_guild_state(st, f, o) == [st EXCEPT !.latest_file = f, !.offset = o]

\* what set_guild_state leaves in the history of persisted cursors
Persisted(log, f, o) == IF observe = "scenario" THEN Append(log, <<f, o>>) ELSE log

\* -------------------------------------------------------------- discovery
\* the timestamp embedded in a file name; names are numbered in its order.
\* A name below 0 does not match ADM_NAME_TS; 0 stands for None, and for
\* datetime.min where a time is ranked.
_parse_name_ts(name) == IF name > 0 THEN name ELSE 0

\* what the three listings of _list_adm_files can show of ListNames: mlsd[n]
\* is -1 when MLSD does not show n, 0 when it shows n without a usable modify
\* fact, else the modify time; nlst and lst are the names NLST and LIST show
ListNames == {-2, -1, 1, 2}
Listings ==
    [mlsd : [ListNames -> {-1, 0, 1, 3}], nlst : SUBSET ListNames,
     lst : SUBSET ListNames, api : {0, 2, 3}]

\* _list_adm_files on the three listings: MLSD first, NLST and LIST add the
\* names not yet in `out` with the name's timestamp (sizes are left out)
_list_adm_files_of(l) ==
    LET in_mlsd == {n \in ListNames : l.mlsd[n] >= 0}
    IN  {[name |-> n, size |-> 0,
          mtime |-> IF l.mlsd[n] > 0 THEN l.mlsd[n] ELSE _parse_name_ts(n)] :
            n \in in_mlsd}
        \cup {[name |-> n, size |-> 0, mtime |-> _parse_name_ts(n)] :
                n \in (l.nlst \cup l.lst) \ in_mlsd}

\* _list_adm_files: (name, size, mtime) of every *.ADM that MLSD, NLST or
\* LIST reported; `listed` is the union of what the three listings showed
_list_adm_files(listed) ==
    {[name |-> n, size |-> Len(files[n]), mtime |-> _parse_name_ts(n)] : n \in listed}

\* mutant: the rows are ranked by their names only
key_by_name(row) == <<0, row.name>>

\* t = mtime or _parse_name_ts(name) or datetime.min
key(row) ==
    <<IF row.mtime # 0 THEN row.mtime ELSE _parse_name_ts(row.name), row.name>>

KeyLeq(a, b) == a[1] < b[1] \/ (a[1] = b[1] /\ a[2] <= b[2])

_choose_latest_adm(rows) ==
    CHOOSE r \in rows : \A q \in rows : KeyLeq(key(q), key(r))

\* _nitrado_api_get_latest: the newest file by name timestamp, 0 for (None, None)
_nitrado_api_get_latest(api_ok) ==
    IF api_ok /\ Len(files) > 0 THEN Len(files) ELSE 0

\* poll_guild, lines 456-480: FTP newest against API newest
choose(rows, api_name) ==
    LET latest_name == IF rows = {} THEN 0 ELSE _choose_latest_adm(rows).name
    IN  IF api_name # 0 /\ latest_name = 0
        THEN [name |-> api_name, api_url |-> TRUE]
        ELSE IF api_name # 0
                /\ _parse_name_ts(api_name) # 0
                /\ _parse_name_ts(api_name) > key(_choose_latest_adm(rows))[1]
             THEN [name |-> api_name, api_url |-> TRUE]
             ELSE [name |-> latest_name, api_url |-> FALSE]

chosen(listed, api_ok) ==
    choose(_list_adm_files(listed), _nitrado_api_get_latest(api_ok))

\* _ftp_size: <<n>> for "213 n", None when the command fails
_ftp_size(name, size_ok) == IF size_ok THEN <<Len(files[name])>> ELSE None

\* what connect/login/cwd, the ranged read and the HTTP download can answer
ConnReplies == {"ok", "connect", "login", "cwd"}
ReadReplies == {"ok", "refused_once", "refused_twice", "raised"}
HttpReplies == {"unused", "ok", "failed"}

TickLocalsIdle ==
    /\ chosen_api_url' = FALSE
    /\ prev_offset' = 0
    /\ lines' = <<>>
    /\ idx' = 0

\* the loop test of line 386 with the stop event set
LoopExit ==
    /\ pc = "top"
    /\ stop_event
    /\ pc' = "done"
    /\ UNCHANGED <<serverVars, events, state, latest_file, offset, seen_set, seen_queue,
                   buffer_last, stop_event, tickVars, histVars>>
    /\ UNCHANGED restVars

\* mutant: a failed connect, login or cwd ends the loop
TickConnectFailsWith_exit(c) ==
    /\ pc = "top"
    /\ ~stop_event
    /\ c \in ConnReplies \ {"ok"}
    /\ pc' = "done"
    /\ UNCHANGED <<serverVars, events, state, latest_file, offset, seen_set, seen_queue,
                   buffer_last, stop_event, tickVars, histVars>>
    /\ UNCHANGED restVars

\* mutant: the tick is entered without the test of the stop event
TickConnectFailsWith_after_stop(c) ==
    /\ pc = "top"
    /\ c \in ConnReplies \ {"ok"}
    /\ pc' = "sleep"
    /\ UNCHANGED <<serverVars, events, state, latest_file, offset, seen_set, seen_queue,
                   buffer_last, stop_event, tickVars, histVars>>
    /\ UNCHANGED restVars

\* lines 386-423: connect, login or cwd answers c; the tick ends in the sleep
TickConnectFailsWith(c) ==
    /\ pc = "top"
    /\ ~stop_event
    /\ c \in ConnReplies \ {"ok"}
    /\ pc' = "sleep"
    /\ UNCHANGED <<serverVars, events, state, latest_file, offset, seen_set, seen_queue,
                   buffer_last, stop_event, tickVars, histVars>>
    /\ UNCHANGED restVars

TickConnectFails == \E c \in ConnReplies : TickConnectFailsWith(c)

\* lines 425-454, 500-504: the listings and the API name no file
TickNoFiles ==
    /\ pc = "top"
    /\ ~stop_event
    /\ \E api_ok \in BOOLEAN : chosen({}, api_ok).name = 0
    /\ pc' = "sleep"
    /\ UNCHANGED <<serverVars, events, state, latest_file, offset, seen_set, seen_queue,
                   buffer_last, stop_event, tickVars, histVars>>
    /\ UNCHANGED restVars

\* mutant: the switch keeps the offset of the file it leaves
switched_keep_offset(cur, name) ==
    IF cur.latest_file # name THEN [latest_file |-> name, offset |-> cur.offset] ELSE cur

\* lines 506-524: the cursor after the switch and after the offset check
switched(cur, name) ==
    IF cur.latest_file # name THEN [latest_file |-> name, offset |-> 0] ELSE cur

\* mutant: the offset check with >= for >
checked_at_eof(cur, sz) ==
    IF sz # None /\ cur.offset >= sz[1] THEN [cur EXCEPT !.offset = 0] ELSE cur

checked(cur, sz) ==
    IF sz # None /\ cur.offset > sz[1] THEN [cur EXCEPT !.offset = 0] ELSE cur

\* lines 386-528: connect, list, choose, switch, SIZE and the offset check
TickDiscoverWith(listed, api_ok, size_ok) ==
    /\ pc = "top"
    /\ ~stop_event
    /\ listed \subseteq 1..Len(files)
    /\ LET ch == chosen(listed, api_ok)
           cur0 == [latest_file |-> latest_file, offset |-> offset]
           cur1 == switched(cur0, ch.name)
           cur2 == checked(cur1, _ftp_size(ch.name, size_ok))
           st1 == IF cur1 # cur0
                  THEN set_guild_state(state, cur1.latest_file, cur1.offset)
                  ELSE state
           log1 == IF cur1 # cur0
                   THEN Persisted(cursorLog, cur1.latest_file, cur1.offset)
                   ELSE cursorLog
       IN  /\ ch.name # 0
           /\ latest_file' = cur2.latest_file
           /\ offset' = cur2.offset
           /\ chosen_api_url' = ch.api_url
           /\ state' = IF cur2 # cur1
                       THEN set_guild_state(st1, cur2.latest_file, cur2.offset)
                       ELSE st1
           /\ cursorLog' = IF cur2 # cur1
                           THEN Persisted(log1, cur2.latest_file, cur2.offset)
                           ELSE log1
    /\ pc' = "read"
    /\ UNCHANGED <<serverVars, events, seen_set, seen_queue, buffer_last, stop_event,
                   prev_offset, lines, idx, delivered, readLog, observe>>
    /\ UNCHANGED restVars

TickDiscover ==
    \E listed \in SUBSET (1..Len(files)), api_ok \in BOOLEAN, size_ok \in BOOLEAN :
        TickDiscoverWith(listed, api_ok, size_ok)

\* ------------------------------------------------------------------- read
\* mutant: a read that raised hands back the bytes received so far
_ftp_read_range_in_cwd_partial(content, start, read) ==
    IF start > 0 /\ read = "refused_twice" THEN [raised |-> FALSE, data |-> <<>>]
    ELSE [raised |-> FALSE, data |-> Tail0(content, start)]

\* _ftp_read_range_in_cwd(ftp, filename, start): [raised, data]; data = <<>>
\* with raised = FALSE is the b"" that signals a REST refused twice
_ftp_read_range_in_cwd(content, start, read) ==
    IF read = "raised" THEN [raised |-> TRUE, data |-> <<>>]
    ELSE IF start > 0 /\ read = "refused_twice" THEN [raised |-> FALSE, data |-> <<>>]
    ELSE [raised |-> FALSE, data |-> Tail0(content, start)]

\* lines 530-560: the ranged read, then the HTTP download when it gave nothing
\* and the API's file was chosen: [blob, full_fetch_used, http_size]
fetch(content, start, api_url, read, http) ==
    LET r == _ftp_read_range_in_cwd(content, start, read)
        blob == IF r.raised THEN <<>> ELSE r.data
    IN  IF blob = <<>> /\ api_url /\ http = "ok"
        THEN [blob |-> IF start < Len(content) THEN Tail0(content, start) ELSE <<>>,
              full_fetch_used |-> TRUE, http_size |-> Len(content)]
        ELSE [blob |-> blob, full_fetch_used |-> FALSE, http_size |-> 0]

\* lines 568-578: the offset after a read that returned bytes
advance(off, f) ==
    IF f.full_fetch_used THEN f.http_size ELSE off + Len(f.blob)

Recorded(log, new) == IF observe # "off" THEN log \cup new ELSE log

\* the lines of a blob as the history keeps them
LinesOf(file, blob) == {<<file, splitlines(blob)[i]>> : i \in 1..Len(splitlines(blob))}

\* the replies that can occur together: REST is sent only from a positive
\* offset, the download is tried only after an empty ranged read of the
\* API's file
Possible(read, http) ==
    LET r == _ftp_read_range_in_cwd(files[latest_file], offset, read)
    IN  /\ read \in ReadReplies
        /\ http \in HttpReplies
        /\ offset = 0 => read \in {"ok", "raised"}
        /\ (http = "unused") = ~(chosen_api_url /\ (r.raised \/ r.data = <<>>))

\* lines 530-581: read, quit, move and persist the cursor, split the text
TickReadWith(read, http, quit_ok) ==
    /\ pc = "read"
    /\ Possible(read, http)
    /\ LET f == fetch(files[latest_file], offset, chosen_api_url, read, http)
       IN  IF ~quit_ok \/ f.blob = <<>>
           THEN /\ pc' = "sleep"
                /\ UNCHANGED <<offset, state, cursorLog, prev_offset, lines, readLog>>
           ELSE /\ prev_offset' = offset
                /\ offset' = advance(offset, f)
                /\ state' = set_guild_state(state, latest_file, offset')
                /\ cursorLog' = Persisted(cursorLog, latest_file, offset')
                /\ lines' = splitlines(f.blob)
                /\ readLog' = Recorded(readLog, LinesOf(latest_file, f.blob))
                /\ pc' = "deliver"
    \* chosen_api_url is not read after line 542
    /\ chosen_api_url' = FALSE
    /\ idx' = 0
    /\ UNCHANGED <<serverVars, events, latest_file, seen_set, seen_queue, buffer_last,
                   stop_event, delivered, observe>>
    /\ UNCHANGED restVars

TickRead ==
    \E read \in ReadReplies, http \in HttpReplies, quit_ok \in BOOLEAN :
        TickReadWith(read, http, quit_ok)

\* lines 586-593: one round of the loop over the lines; the callback may raise,
\* which ends the tick in the handler of line 595
DeliverWith(cb_raises) ==
    /\ pc = "deliver"
    /\ idx < Len(lines)
    /\ LET line == lines[idx + 1]
           r == _remember_line(line, seen_set, seen_queue)
           a == accept(line, buffer_last)
           called == r.ok /\ a.ok
       IN  /\ cb_raises => called
           /\ seen_set' = r.sset
           /\ seen_queue' = r.squeue
           /\ buffer_last' = IF r.ok THEN a.last ELSE buffer_last
           /\ delivered' = IF called /\ observe # "off"
                           THEN Append(delivered,
                                       [file |-> latest_file, pos |-> prev_offset,
                                        idx |-> idx, line |-> line])
                           ELSE delivered
           /\ idx' = idx + 1
           /\ pc' = IF cb_raises \/ idx + 1 = Len(lines) THEN "sleep" ELSE "deliver"
    /\ UNCHANGED <<serverVars, events, state, latest_file, offset, stop_event,
                   chosen_api_url, prev_offset, lines, readLog,
                   cursorLog, observe>>
    /\ UNCHANGED restVars

Deliver == \E cb_raises \in BOOLEAN : DeliverWith(cb_raises)

\* line 602 (and 422, 453, 503): asyncio.sleep(interval), back to the loop test
Sleep ==
    /\ pc = "sleep"
    /\ pc' = "top"
    /\ TickLocalsIdle
    /\ UNCHANGED <<serverVars, events, state, latest_file, offset, seen_set, seen_queue,
                   buffer_last, stop_event, histVars>>
    /\ UNCHANGED restVars

\* the holder of the guild's event (bot.py keeps them in poll_stops) sets it
Stop ==
    /\ ~stop_event
    /\ pc # "done"
    /\ stop_event' = TRUE
    /\ events < MaxEvents
    /\ events' = events + 1
    /\ UNCHANGED <<serverVars, state, latest_file, offset, seen_set, seen_queue,
                   buffer_last, pc, tickVars, histVars>>
    /\ UNCHANGED restVars

\* poll_guild lines 348-367 in a new process: locals from the persisted entry
Restart ==
    /\ events < MaxEvents
    /\ events' = events + 1
    /\ latest_file' = state.latest_file
    /\ offset' = state.offset
    /\ seen_set' = {}
    /\ seen_queue' = <<>>
    /\ buffer_last' = <<>>
    /\ stop_event' = FALSE
    /\ pc' = "top"
    /\ TickLocalsIdle
    /\ UNCHANGED <<serverVars, state, delivered, readLog, cursorLog, observe>>
    /\ UNCHANGED restVars

\* ----------------------------------------------------------------- server
\* The poller looks at the server in TickDiscover and in TickRead only, and a
\* server step commutes with every other step: it is taken right before one
\* of the two, which loses no behaviour up to that reordering.
Observing == pc \in {"top", "read"}

ServerAppend ==
    /\ Observing
    /\ Len(files) > 0
    /\ events < MaxEvents
    /\ \E b \in Alphabet :
         files' = [files EXCEPT ![Len(files)] = Append(@, b)]
    /\ events' = events + 1
    /\ UNCHANGED <<pollVars, tickVars, histVars>>
    /\ UNCHANGED restVars

ServerRollover ==
    /\ Observing
    /\ events < MaxEvents
    /\ events' = events + 1
    /\ files' = Append(files, <<>>)
    /\ UNCHANGED <<pollVars, tickVars, histVars>>
    /\ UNCHANGED restVars

ServerTruncate ==
    /\ Observing
    /\ Len(files) > 0
    /\ files[Len(files)] # <<>>
    /\ events < MaxEvents
    /\ events' = events + 1
    /\ files' = [files EXCEPT ![Len(files)] = <<>>]
    /\ UNCHANGED <<pollVars, tickVars, histVars>>
    /\ UNCHANGED restVars

\* --------------------------------------------------------- specification
PollerStart ==
    /\ events = 0
    /\ state = [latest_file |-> 0, offset |-> 0]
    /\ latest_file = 0
    /\ offset = 0
    /\ seen_set = {}
    /\ seen_queue = <<>>
    /\ buffer_last = <<>>
    /\ pc = "top"
    /\ stop_event = FALSE
    /\ chosen_api_url = FALSE
    /\ prev_offset = 0
    /\ lines = <<>>
    /\ idx = 0
    /\ delivered = <<>>
    /\ readLog = {}
    /\ cursorLog = <<>>

\* the bot module before its first on_ready
BotIdle ==
    /\ cfg_guilds = {}
    /\ poll_stops = {}
    /\ stopped = {}
    /\ loops = [g \in Guilds |-> <<>>]
    /\ starting = 0
    /\ readies = 0

\* no listing looked at on its own
ChooseIdle ==
    /\ listing = [mlsd |-> [n \in ListNames |-> -1], nlst |-> {}, lst |-> {}, api |-> 0]
    /\ choice = <<>>

\* tracker.py at import (lines 116-118), the clock one interval past 0, no
\* track file yet
TrackIdle ==
    /\ tracks = [p \in Players |-> <<>>]
    /\ _buffers = [p \in Players |-> <<>>]
    /\ _last_flush_ts = 0
    /\ now = _FLUSH_INTERVAL
    /\ accepted = [p \in Players |-> 0]
    /\ last_call = [op |-> "none", pid |-> "", xz |-> 0, returned |-> <<>>]
    /\ calls = 0
    /\ tasks = <<>>
    /\ notified = [pid |-> "", n |-> 0, called |-> <<>>, raised |-> {},
                   escaped |-> FALSE]

\* the record svbounty opens for a target (cogs/bounty.py lines 1188-1208)
\* and the fields update_guild reads of it; last_pl_seen_ts 0 is None
rec ==
    [online |-> TRUE, last_state_announce |-> "online", pl_absent |-> 0,
     stale_scans |-> 0, last_pl_seen_ts |-> 0, bootstrapped_status |-> FALSE,
     last_coords |-> FALSE]

\* a log without a line of the target and without a PlayerList block:
\* status is the latest Connect/Disconnect line of the target, status_id its
\* number, pl_sig the signature of the latest PlayerList block (0 is None),
\* in_pl whether the block lists the target, pos whether the tracker or the
\* log tail holds a position of the target
BountyIdle ==
    /\ bounty = rec
    /\ adm = [status |-> "none", status_id |-> 0, pl_sig |-> 0, in_pl |-> FALSE,
              pos |-> FALSE]
    /\ announced = <<>>
    /\ ticks = 0
    /\ observed = [op |-> "none", adm |-> adm]

\* no line was handed to a parser yet
ParseIdle ==
    /\ ln = <<>>
    /\ parsed = [done |-> {}, pos |-> {}, kill |-> {}, status |-> {}]

\* an empty ADM file that nobody read yet
PlIdle ==
    /\ admfile = <<>>
    /\ pl_now = [sig |-> <<>>, block |-> <<>>]
    /\ pl_prev = [sig |-> <<>>, block |-> <<>>]

\* no line was handed to _remember_line outside a tick
FedIdle == fed = [n |-> 0, line |-> <<>>, ok |-> FALSE]

\* the targets with a bounty
Targets == {"foo", "bar"}

\* the bounties of the model's start are open, no run is under way
DbIdle ==
    /\ db_open = {<<t, 1>> : t \in Targets}
    /\ u_doc = <<>>
    /\ w_doc = <<>>
    /\ kill_lines = <<>>
    /\ awards = <<>>
    /\ created = [t \in Targets |-> 1]
    /\ db_runs = 0

\* live_pulse.init was not called, no point was accepted
PulseIdle ==
    /\ point_subs = <<>>
    /\ pulse_bot = FALSE
    /\ pending = 0
    /\ invoked = <<>>

\* _latest_playerlist has not read the line
EntryIdle == pl_entry = <<>>

LateIdle == PlIdle /\ FedIdle /\ DbIdle /\ PulseIdle /\ EntryIdle

RestIdle ==
    BotIdle /\ ChooseIdle /\ TrackIdle /\ BountyIdle /\ ParseIdle /\ LateIdle

PollerInit ==
    /\ files \in {<<c>> : c \in InitialContents}
    /\ PollerStart
    /\ RestIdle

Init == PollerInit /\ observe = "off"

Poller ==
    \/ LoopExit
    \/ TickConnectFails
    \/ TickNoFiles
    \/ TickDiscover
    \/ TickRead
    \/ Deliver
    \/ Sleep

Next ==
    \/ Poller
    \/ Stop
    \/ Restart
    \/ ServerAppend
    \/ ServerRollover
    \/ ServerTruncate

Spec == Init /\ [][Next]_vars

\* the same poller with the histories of callback calls, read lines and
\* persisted cursors recorded
InitHist == PollerInit /\ observe = "lines"

SpecHist == InitHist /\ [][Next]_vars

\* --------------------------------------------- the two-tick scenario run
\* File 1 (A) holds its first 120 bytes when the poller starts, grows to 260
\* bytes once the cursor stands at (A, 120), and file 2 (B) appears once the
\* cursor stands at (A, 260). Every discovery finds the newest file. The
\* log is made of ten-byte lines, each different from the others.
ScenarioLine(i) ==
    [k \in 1..9 |-> IF (i \div (2 ^ (k - 1))) % 2 = 1 THEN "b" ELSE "a"] \o <<NL>>

RECURSIVE ScenarioBytes(_)
ScenarioBytes(n) ==
    IF n = 0 THEN <<>> ELSE ScenarioBytes(n - 1) \o ScenarioLine(n)

ScenarioAppend ==
    /\ Observing
    /\ Len(files) = 1
    /\ files[1] = ScenarioBytes(12)
    /\ state = [latest_file |-> 1, offset |-> 120]
    /\ files' = <<ScenarioBytes(26)>>
    /\ UNCHANGED <<events, pollVars, tickVars, histVars>>
    /\ UNCHANGED restVars

ScenarioRollover ==
    /\ Observing
    /\ Len(files) = 1
    /\ state = [latest_file |-> 1, offset |-> 260]
    /\ \E c \in InitialContents : files' = Append(files, c)
    /\ UNCHANGED <<events, pollVars, tickVars, histVars>>
    /\ UNCHANGED restVars

ScenarioDiscover ==
    \E listed \in SUBSET (1..Len(files)), api_ok \in BOOLEAN, size_ok \in BOOLEAN :
        /\ chosen(listed, api_ok).name = Len(files)
        /\ TickDiscoverWith(listed, api_ok, size_ok)

InitScenario ==
    /\ files = <<ScenarioBytes(12)>>
    /\ PollerStart
    /\ RestIdle
    /\ observe = "scenario"

NextScenario ==
    \/ TickConnectFails
    \/ TickNoFiles
    \/ ScenarioDiscover
    \/ TickRead
    \/ Deliver
    \/ Sleep
    \/ ScenarioAppend
    \/ ScenarioRollover

SpecScenario == InitScenario /\ [][NextScenario]_vars

\* ------------------------------------------------------ bot.py: the loops
\* One poll_guild task per guild is created by start_polls, which on_ready
\* schedules every time the session becomes ready. A task's phase follows
\* poll_guild: new (created, not yet run), top (the loop test), tick, sleep,
\* done (returned).
notBot == <<pollerVars, chooseVars, trackVars, bountyVars, parseVars, lateVars>>

\* the poller left alone while another part of the program is looked at
PollerIdle ==
    /\ files = <<<<>>>>
    /\ PollerStart
    /\ observe = "off"

\* mutant: start_polls without the test of poll_stops
skipped_no_stop_test(g, cfgs, stops) == g \notin cfgs

\* bot.py line 26: the guild gets no poller in this run of start_polls
skipped(g, cfgs, stops) == g \notin cfgs \/ g \in stops

\* bot.py lines 33-40: on_ready creates a start_polls task
on_ready ==
    /\ readies < MaxReady
    /\ readies' = readies + 1
    /\ starting' = starting + 1
    /\ UNCHANGED <<cfg_guilds, poll_stops, stopped, loops, notBot>>

\* bot.py lines 22-30: one run of start_polls; it does not await inside the loop
start_polls ==
    /\ starting > 0
    /\ starting' = starting - 1
    /\ poll_stops' = poll_stops \cup {g \in Guilds : ~skipped(g, cfg_guilds, poll_stops)}
    /\ loops' = [g \in Guilds |->
                   IF skipped(g, cfg_guilds, poll_stops)
                   THEN loops[g]
                   ELSE Append(loops[g], "new")]
    /\ UNCHANGED <<cfg_guilds, stopped, readies, notBot>>

\* utils/ftp_config.py: an administrator sets or clears the guild's entry
set_ftp_config(g) ==
    /\ g \notin cfg_guilds
    /\ cfg_guilds' = cfg_guilds \cup {g}
    /\ UNCHANGED <<poll_stops, stopped, loops, starting, readies, notBot>>

clear_ftp_config(g) ==
    /\ g \in cfg_guilds
    /\ cfg_guilds' = cfg_guilds \ {g}
    /\ UNCHANGED <<poll_stops, stopped, loops, starting, readies, notBot>>

\* the holder of poll_stops[g] sets the event
stop_set(g) ==
    /\ g \in poll_stops
    /\ g \notin stopped
    /\ stopped' = stopped \cup {g}
    /\ UNCHANGED <<cfg_guilds, poll_stops, loops, starting, readies, notBot>>

\* poll_guild as a task: entry (lines 348-351), loop test (386), tick
\* (387-600), sleep (602)
phase_after(ph, has_cfg, is_stopped) ==
    CASE ph = "new" -> IF has_cfg THEN "top" ELSE "done"
      [] ph = "top" -> IF is_stopped THEN "done" ELSE "tick"
      [] ph = "tick" -> "sleep"
      [] ph = "sleep" -> "top"
      [] OTHER -> "done"

poll_guild_step(g, i) ==
    /\ i \in 1..Len(loops[g])
    /\ loops[g][i] # "done"
    /\ loops' = [loops EXCEPT ![g][i] = phase_after(@, g \in cfg_guilds, g \in stopped)]
    /\ UNCHANGED <<cfg_guilds, poll_stops, stopped, starting, readies, notBot>>

InitBot == PollerIdle /\ RestIdle

NextBot ==
    \/ on_ready
    \/ start_polls
    \/ \E g \in Guilds : set_ftp_config(g)
    \/ \E g \in Guilds : clear_ftp_config(g)
    \/ \E g \in Guilds : stop_set(g)
    \/ \E g \in Guilds : \E i \in 1..MaxReady : poll_guild_step(g, i)

SpecBot == InitBot /\ [][NextBot]_vars

\* --------------------------------------------- the discovery on its own
\* lines 426-504 of one tick on any listing: the rows, then the choice
discover ==
    /\ choice = <<>>
    /\ choice' = <<choose(_list_adm_files_of(listing), listing.api).name>>
    /\ UNCHANGED <<listing, pollerVars, botVars, trackVars, bountyVars, parseVars,
                   lateVars>>

InitChoose ==
    /\ PollerIdle
    /\ BotIdle
    /\ TrackIdle
    /\ BountyIdle
    /\ ParseIdle
    /\ LateIdle
    /\ listing \in Listings
    /\ choice = <<>>

NextChoose == discover

SpecChoose == InitChoose /\ [][NextChoose]_vars

\* ------------------------------------------------- tracker.py: the tracks
\* A point is [xz, n]: its (x, z) pair and its number among the points of the
\* player that append_point queued (the history's name for the point). The
\* track files are read and written through load_file and save_file; a
\* save_file that fails leaves the file as it was.
notTrack == <<pollerVars, botVars, chooseVars, bountyVars, parseVars, lateVars>>

\* the callbacks subscribe_to_points registered, in the order of registration
_point_subscribers == <<"cb1", "cb2">>

\* one try around the whole loop: the first exception ends the loop
_notify_point_try_around(subs, raises) ==
    LET stop == {i \in 1..Len(subs) : subs[i] \in raises}
        upto == IF stop = {} THEN Len(subs)
                ELSE CHOOSE i \in stop : \A j \in stop : i <= j
    IN  [called |-> SubSeq(subs, 1, upto), escaped |-> FALSE]

\* _notify_point (lines 75-82); raises: the callbacks that raise an Exception.
\* The try is inside the loop: what a callback raises is logged and the loop
\* goes on; nothing leaves the coroutine.
_notify_point(subs, raises) ==
    [called |-> subs, escaped |-> FALSE]

\* the first n, not the last
FirstN(s, n) == IF n > 0 /\ Len(s) > n THEN SubSeq(s, 1, n) ELSE s

\* Python s[-n:]
LastN(s, n) == IF n > 0 /\ Len(s) > n THEN SubSeq(s, Len(s) - n + 1, Len(s)) ELSE s

\* _flush_pid (lines 124-149) on (tracks, _buffers); ok: save_file succeeds
_flush_pid(tr, buf, pid, ok) ==
    IF buf[pid] = <<>>
    THEN [tracks |-> tr, buffers |-> buf]
    ELSE LET points == tr[pid] \o buf[pid]
             doc == IF Len(points) > MAX_POINTS_PER_PLAYER
                    THEN LastN(points, MAX_POINTS_PER_PLAYER)
                    ELSE points
         IN  [tracks |-> IF ok THEN [tr EXCEPT ![pid] = doc] ELSE tr,
              buffers |-> [buf EXCEPT ![pid] = <<>>]]

\* _flush_maybe (lines 152-159); fail: the players whose save_file fails
_flush_maybe(tr, buf, force, t, last, fail) ==
    IF force \/ (t - last) >= _FLUSH_INTERVAL
    THEN [tracks |-> [p \in Players |-> _flush_pid(tr, buf, p, p \notin fail).tracks[p]],
          buffers |-> [p \in Players |-> <<>>],
          last |-> t]
    ELSE [tracks |-> tr, buffers |-> buf, last |-> last]

\* append_point without the look at the last saved point
duplicate_buffer_only(tr, buf, pid, xz) ==
    buf[pid] # <<>> /\ buf[pid][Len(buf[pid])].xz = xz

\* append_point lines 191-203: the point repeats the last queued one, or with
\* an empty queue the last saved one
duplicate(tr, buf, pid, xz) ==
    IF buf[pid] # <<>>
    THEN buf[pid][Len(buf[pid])].xz = xz
    ELSE tr[pid] # <<>> /\ tr[pid][Len(tr[pid])].xz = xz

\* above the threshold, not at it
full_above(q) == Len(q) > _MAX_BUFFER_POINTS

\* append_point line 215: the size threshold
full(q) == Len(q) >= _MAX_BUFFER_POINTS

\* append_point (lines 163-217)
append_point(pid, xz, fail) ==
    /\ IF duplicate(tracks, _buffers, pid, xz)
       THEN UNCHANGED <<tracks, _buffers, _last_flush_ts, accepted, tasks>>
       ELSE LET point == [xz |-> xz, n |-> accepted[pid] + 1]
                q == [_buffers EXCEPT ![pid] = Append(@, point)]
                f1 == IF full(q[pid])
                      THEN _flush_pid(tracks, q, pid, pid \notin fail)
                      ELSE [tracks |-> tracks, buffers |-> q]
                f2 == _flush_maybe(f1.tracks, f1.buffers, FALSE, now,
                                   _last_flush_ts, fail)
            IN  /\ tracks' = f2.tracks
                /\ _buffers' = f2.buffers
                /\ _last_flush_ts' = f2.last
                /\ accepted' = [accepted EXCEPT ![pid] = @ + 1]
                \* line 221: create_task(_notify_point(...))
                /\ tasks' = Append(tasks, [pid |-> pid, n |-> point.n])
    /\ last_call' = [op |-> "append", pid |-> pid, xz |-> xz, returned |-> <<>>]
    /\ calls' = calls + 1
    /\ UNCHANGED <<now, notified, notTrack>>

\* load_track (lines 232-264) without window and limit, for an indexed player
load_track(pid, ok) ==
    /\ accepted[pid] > 0
    /\ LET f == _flush_pid(tracks, _buffers, pid, ok)
       IN  /\ tracks' = f.tracks
           /\ _buffers' = f.buffers
           /\ last_call' = [op |-> "load", pid |-> pid, xz |-> 0,
                            returned |-> f.tracks[pid]]
    /\ calls' = calls + 1
    /\ UNCHANGED <<_last_flush_ts, now, accepted, tasks, notified, notTrack>>

\* time.time() moves on by one flush interval
clock_step ==
    /\ now' = now + _FLUSH_INTERVAL
    /\ calls' = calls + 1
    /\ UNCHANGED <<tracks, _buffers, _last_flush_ts, accepted, last_call, tasks,
                   notified, notTrack>>

\* the event loop runs the oldest _notify_point task (created at line 221)
run_notify_point(raises) ==
    /\ tasks # <<>>
    /\ LET r == _notify_point(_point_subscribers, raises)
       IN  notified' = [pid |-> Head(tasks).pid, n |-> Head(tasks).n,
                        called |-> r.called, raised |-> raises,
                        escaped |-> r.escaped]
    /\ tasks' = Tail(tasks)
    /\ UNCHANGED <<tracks, _buffers, _last_flush_ts, now, accepted, last_call,
                   calls, notTrack>>

InitTrack == PollerIdle /\ RestIdle

NextTrack ==
    \/ \E pid \in Players, xz \in XZ, fail \in SUBSET Players :
         calls < MaxCalls /\ append_point(pid, xz, fail)
    \/ \E pid \in Players, ok \in BOOLEAN :
         calls < MaxCalls /\ load_track(pid, ok)
    \/ calls < MaxCalls /\ clock_step

SpecTrack == InitTrack /\ [][NextTrack]_vars

\* the points and their notifications: append_point creates the tasks, the
\* event loop runs them
NextNotify ==
    \/ \E pid \in Players, xz \in XZ, fail \in {{}, Players} :
         calls < MaxCalls /\ append_point(pid, xz, fail)
    \/ \E raises \in SUBSET {"cb1", "cb2"} : run_notify_point(raises)

SpecNotify == InitTrack /\ [][NextNotify]_vars

\* a burst of points of one player within one flush interval
NextBurst ==
    \E xz \in XZ, fail \in SUBSET {"p1"} :
        calls < MaxBurst /\ append_point("p1", xz, fail)

SpecBurst == InitTrack /\ [][NextBurst]_vars

\* --------------------------------------- cogs/bounty.py: online and offline
notBounty == <<pollerVars, botVars, chooseVars, trackVars, parseVars, lateVars>>

\* coords_from_pl (line 666): the latest PlayerList block lists the target
coords_from_pl(a) == a.pl_sig # 0 /\ a.in_pl

\* an announcement and the fields set with it; c is [b, out]: the record and
\* the announcements of the tick so far
announce(c, what, fields) ==
    [b |-> fields @@ c.b, out |-> Append(c.out, what)]

\* update_guild lines 668-698: explicit connect/disconnect override
explicit_status(c, a) ==
    LET c1 == IF a.status = "connected" /\ c.b.last_state_announce # "online"
              THEN announce(c, "online",
                     [online |-> TRUE, last_state_announce |-> "online",
                      pl_absent |-> 0, stale_scans |-> 0])
              ELSE c
    IN  IF a.status = "disconnected" /\ c1.b.last_state_announce # "offline"
        THEN announce(c1, "offline",
               [online |-> FALSE, last_state_announce |-> "offline"])
        ELSE c1

\* update_guild lines 714-730: did the PlayerList advance this tick?
playerlist_advance(c, a) ==
    IF a.pl_sig # 0 /\ c.b.last_pl_seen_ts # a.pl_sig
    THEN LET c1 == [c EXCEPT !.b.last_pl_seen_ts = a.pl_sig]
         IN  IF coords_from_pl(a)
             THEN LET c2 == [c1 EXCEPT !.b.pl_absent = 0, !.b.stale_scans = 0]
                  IN  IF ~c2.b.online
                      THEN announce(c2, "online",
                             [online |-> TRUE, last_state_announce |-> "online"])
                      ELSE c2
             ELSE [c1 EXCEPT !.b.pl_absent = @ + 1]
    ELSE c

\* update_guild lines 732-764: a coordinate from the PlayerList, the tracker,
\* the log tail or last_coords; without one the target is skipped
best_xy(c, a) == coords_from_pl(a) \/ a.pos \/ c.b.last_coords

\* update_guild lines 772-802: the scan count and the flip to offline
stale_scan(c, a) ==
    LET c1 == [c EXCEPT !.b.stale_scans = IF coords_from_pl(a) THEN 0 ELSE @ + 1]
        c2 == IF /\ c1.b.online
                 /\ c1.b.stale_scans >= STALE_MOVEMENT_SCANS
                 /\ c1.b.last_state_announce # "offline"
              THEN announce(c1, "offline",
                     [online |-> FALSE, last_state_announce |-> "offline"])
              ELSE c1
    IN  [c2 EXCEPT !.b.stale_scans = IF coords_from_pl(a) THEN 0 ELSE @,
                   !.b.last_coords = TRUE]

\* update_guild lines 804-826: bootstrap
bootstrap(c, a) ==
    IF c.b.bootstrapped_status THEN c
    ELSE LET should_bootstrap_offline ==
                 /\ c.b.last_state_announce # "offline"
                 /\ \/ a.status = "disconnected"
                    \/ (a.pl_sig # 0 /\ ~coords_from_pl(a))
             c1 == IF should_bootstrap_offline
                   THEN announce(c, "offline",
                          [online |-> FALSE, last_state_announce |-> "offline",
                           pl_absent |-> IF c.b.pl_absent > PL_ABSENCE_THRESHOLD
                                         THEN c.b.pl_absent
                                         ELSE PL_ABSENCE_THRESHOLD])
                   ELSE c
         IN  [c1 EXCEPT !.b.bootstrapped_status = TRUE]

\* update_guild (lines 620-859) for the target: the record and the
\* announcements after one tick over the log a
update_target(b, a) ==
    LET c1 == playerlist_advance(explicit_status([b |-> b, out |-> <<>>], a), a)
    IN  IF best_xy(c1, a) THEN bootstrap(stale_scan(c1, a), a) ELSE c1

\* mutant: the online flag follows the log, the announcement flag is left
watch_target_flag_only(b, a) ==
    [b |-> [b EXCEPT !.online = IF a.status = "connected" THEN TRUE
                                ELSE IF a.status = "disconnected" THEN FALSE
                                ELSE b.online],
     out |-> <<>>]

\* check_kills_and_status lines 973-1056 for the target
watch_target(b, a) ==
    LET now_online == IF a.status = "connected" THEN TRUE
                      ELSE IF a.status = "disconnected" THEN FALSE
                      ELSE b.online
        c0 == [b |-> [b EXCEPT !.online = now_online], out |-> <<>>]
        c1 == IF a.status = "connected" /\ b.last_state_announce # "online"
              THEN announce(c0, "online",
                     [last_state_announce |-> "online", pl_absent |-> 0,
                      stale_scans |-> 0])
              ELSE c0
    IN  IF a.status = "disconnected" /\ b.last_state_announce # "offline"
        THEN announce(c1, "offline", [last_state_announce |-> "offline"])
        ELSE c1

\* one tick of the bounty_updater loop (lines 1267-1276)
update_guild ==
    /\ LET c == update_target(bounty, adm)
       IN  /\ bounty' = c.b
           /\ announced' = announced \o c.out
    /\ observed' = [op |-> "updater", adm |-> adm]
    /\ ticks' = ticks + 1
    /\ UNCHANGED <<adm, notBounty>>

\* one tick of the kill_watcher loop (lines 1283-1291)
check_kills_and_status ==
    /\ LET c == watch_target(bounty, adm)
       IN  /\ bounty' = c.b
           /\ announced' = announced \o c.out
    /\ observed' = [op |-> "watcher", adm |-> adm]
    /\ ticks' = ticks + 1
    /\ UNCHANGED <<adm, notBounty>>

\* the server logs a Connect or a Disconnect line of the target
log_status(s) ==
    /\ adm' = [adm EXCEPT !.status = s, !.status_id = @ + 1]
    /\ UNCHANGED <<bounty, announced, ticks, observed, notBounty>>

\* the server logs a PlayerList block, with the target and its position in
\* it or without
log_playerlist(present) ==
    /\ adm' = [adm EXCEPT !.pl_sig = @ + 1, !.in_pl = present,
                          !.pos = @ \/ present]
    /\ UNCHANGED <<bounty, announced, ticks, observed, notBounty>>

\* the lines the server has logged so far
logged == adm.status_id + adm.pl_sig

\* a target just registered; the tracker holds a position of it or not
InitBounty ==
    /\ PollerIdle /\ BotIdle /\ ChooseIdle /\ TrackIdle /\ ParseIdle /\ LateIdle
    /\ bounty = rec
    /\ adm \in [status : {"none"}, status_id : {0}, pl_sig : {0},
               in_pl : {FALSE}, pos : BOOLEAN]
    /\ announced = <<>>
    /\ ticks = 0
    /\ observed = [op |-> "none", adm |-> adm]

NextBounty ==
    \/ ticks < MaxTicks /\ update_guild
    \/ ticks < MaxTicks /\ check_kills_and_status
    \/ \E s \in {"connected", "disconnected"} : logged < MaxLog /\ log_status(s)
    \/ \E present \in BOOLEAN : logged < MaxLog /\ log_playerlist(present)

SpecBounty == InitBounty /\ [][NextBounty]_vars

\* ------------------------------------------- the matchers of the ADM lines
\* A line is a sequence of one-character strings. A pattern is a sequence of
\* nodes, matched as Python's re matches it: by backtracking, the first way
\* that succeeds wins; a greedy quantifier tries the longer way first, a lazy
\* one the shorter. All the patterns are compiled with re.I: the line is
\* lowered before it is matched and so is every literal of a pattern.
notParse == <<pollerVars, botVars, chooseVars, trackVars, bountyVars, lateVars>>

upper == <<"A", "B", "C", "D", "E", "F", "G", "H", "I", "J", "K", "L", "M", "N", "O", "P", "Q", "R", "S", "T", "U", "V", "W", "X", "Y", "Z">>
lower == <<"a", "b", "c", "d", "e", "f", "g", "h", "i", "j", "k", "l", "m", "n", "o", "p", "q", "r", "s", "t", "u", "v", "w", "x", "y", "z">>
digits == <<"0", "1", "2", "3", "4", "5", "6", "7", "8", "9">>

Range(f) == {f[k] : k \in DOMAIN f}

\* str.casefold of one character, and of a string
casefold1(c) ==
    IF \E k \in DOMAIN upper : upper[k] = c
    THEN lower[CHOOSE k \in DOMAIN upper : upper[k] = c]
    ELSE c

casefold(str) == [k \in DOMAIN str |-> casefold1(str[k])]

\* the classes \d, \s and \w
digit == Range(digits)
space == {" ", "\t", "\n", "\r", "\f"}
word == Range(lower) \cup digit \cup {"_"}
quote == {"\"", "'"}

\* nodes: a string of classes, one character of each (a literal is a string
\* of one-character classes); a run of characters of a class (neg: of its
\* complement) with a quantifier q of 1, ?, * or +, lazy or greedy; ^; \b; the
\* start and the end of a named group; a group of alternatives with a
\* quantifier of 1 or ?
Node(t) ==
    [t |-> t, str |-> <<>>, cs |-> {}, neg |-> FALSE, q |-> "1", lazy |-> FALSE,
     g |-> "", alts |-> <<>>]

Each(classes) == <<[Node("each") EXCEPT !.str = classes]>>

In(set) == [Node("set") EXCEPT !.cs = set]
NotIn(set) == [Node("set") EXCEPT !.cs = set, !.neg = TRUE]
Dot == NotIn({"\n"})
Opt(n) == [n EXCEPT !.q = "?"]
Star(n) == [n EXCEPT !.q = "*"]
Plus(n) == [n EXCEPT !.q = "+"]
Lazy(n) == [n EXCEPT !.lazy = TRUE]
Bol == Node("bol")
B == Node("b")
Alt(alternatives) == [Node("alt") EXCEPT !.alts = alternatives]
Lit(str) == Each([k \in DOMAIN str |-> {casefold1(str[k])}])
Cap(g, re) == <<[Node("open") EXCEPT !.g = g]>> \o re \o <<[Node("close") EXCEPT !.g = g]>>

Groups == {"ts", "victim", "killer", "name", "name2", "x", "y", "z"}
NoMatch == [ok |-> FALSE, end |-> 0, caps |-> [g \in Groups |-> <<0, 0>>]]

\* \b at position i: exactly one of l[i-1] and l[i] is a word character
boundary(l, i) ==
    LET isw(j) == j \in DOMAIN l /\ l[j] \in word
    IN  isw(i - 1) # isw(i)

\* the number of characters from position i on that the node n takes at most
run(n, l, i) ==
    LET hit(j) == j <= Len(l) /\ ((l[j] \in n.cs) # n.neg)
        all == CHOOSE k \in 0..(Len(l) + 1 - i) :
                   /\ \A j \in 0..(k - 1) : hit(i + j)
                   /\ ~hit(i + k)
    IN  IF n.q \in {"1", "?"} /\ all > 1 THEN 1 ELSE all

\* tries is a set of <<k, the match of the k-th way>>: the match of the first
\* way that succeeds, the ways taken in rising order, or in falling order
first_ok(tries, rising) ==
    IF \A p \in tries : ~p[2].ok THEN NoMatch
    ELSE (CHOOSE p \in tries :
              /\ p[2].ok
              /\ \A o \in tries :
                    o[2].ok => IF rising THEN p[1] <= o[1] ELSE p[1] >= o[1])[2]

RECURSIVE match(_, _, _, _)

\* the pattern re matched against the lowered line l from position i on
match(re, l, i, caps) ==
    IF Len(re) = 0 THEN [ok |-> TRUE, end |-> i, caps |-> caps]
    ELSE
    LET n == Head(re)
        rest == Tail(re)
        skip == match(rest, l, i, caps)
        least == IF n.q \in {"1", "+"} THEN 1 ELSE 0
    IN  CASE n.t = "bol" -> IF i = 1 THEN skip ELSE NoMatch
          [] n.t = "b" -> IF boundary(l, i) THEN skip ELSE NoMatch
          [] n.t = "each" ->
                IF /\ i + Len(n.str) - 1 <= Len(l)
                   /\ \A k \in DOMAIN n.str : l[i + k - 1] \in n.str[k]
                THEN match(rest, l, i + Len(n.str), caps)
                ELSE NoMatch
          [] n.t = "open" ->
                match(rest, l, i, [caps EXCEPT ![n.g] = <<i, 0>>])
          [] n.t = "close" ->
                match(rest, l, i, [caps EXCEPT ![n.g] = <<@[1], i>>])
          [] n.t = "alt" ->
                first_ok({<<k, IF k > Len(n.alts) THEN skip
                               ELSE match(n.alts[k] \o rest, l, i, caps)>> :
                          k \in 1..(Len(n.alts) + IF n.q = "?" THEN 1 ELSE 0)},
                         TRUE)
          [] n.t = "set" /\ n.q = "1" ->
                IF run(n, l, i) = 1 THEN match(rest, l, i + 1, caps) ELSE NoMatch
          [] n.t = "set" /\ run(n, l, i) <= least ->
                IF run(n, l, i) = least THEN match(rest, l, i + least, caps)
                ELSE NoMatch
          [] n.t = "set" ->
                first_ok({<<k, match(rest, l, i + k, caps)>> :
                          k \in least..run(n, l, i)}, n.lazy)

\* the leftmost match of re in the lowered line l
search_from(re, l) ==
    first_ok({<<i, match(re, l, i, NoMatch.caps)>> : i \in 1..(Len(l) + 1)}, TRUE)

\* re.search(str) under re.I
search(re, str) == search_from(re, casefold(str))

\* m.group(g): the characters of the line the group matched, <<>> for None
group(m, str, g) == SubSeq(str, m.caps[g][1], m.caps[g][2] - 1)

RECURSIVE lstrip(_)
lstrip(str) == IF str # <<>> /\ Head(str) \in space THEN lstrip(Tail(str)) ELSE str

RECURSIVE strip(_)
strip(str) ==
    IF str # <<>> /\ str[Len(str)] \in space
    THEN strip(SubSeq(str, 1, Len(str) - 1))
    ELSE lstrip(str)

\* the value of a string of digits
RECURSIVE int(_)
int(str) ==
    IF str = <<>> THEN 0
    ELSE 10 * int(SubSeq(str, 1, Len(str) - 1))
         + (CHOOSE k \in DOMAIN digits : digits[k] = str[Len(str)]) - 1

RECURSIVE no_zeros(_)
no_zeros(str) ==
    IF str # <<>> /\ str[Len(str)] = "0"
    THEN no_zeros(SubSeq(str, 1, Len(str) - 1))
    ELSE str

\* float(str) of a string -?\d+(\.\d+)?: the sign, the whole part and the
\* decimals without their trailing zeros
float(str) ==
    LET neg == str[1] = "-"
        abs == IF neg THEN Tail(str) ELSE str
        dot == IF \E k \in DOMAIN abs : abs[k] = "."
               THEN CHOOSE k \in DOMAIN abs : abs[k] = "."
               ELSE Len(abs) + 1
        whole == int(SubSeq(abs, 1, dot - 1))
        dec == no_zeros(SubSeq(abs, dot + 1, Len(abs)))
    IN  [neg |-> neg /\ (whole # 0 \/ dec # <<>>), whole |-> whole, dec |-> dec]

\* -?\d+(?:\.\d+)?
NUM == <<Opt(In({"-"})), Plus(In(digit)),
         [Alt(<<Lit(<<".">>) \o <<Plus(In(digit))>>>>) EXCEPT !.q = "?"]>>

\* \d\d:\d\d:\d\d
HMS == Each(<<digit, digit, {":"}, digit, digit, {":"}, digit, digit>>)

TS_PREFIX_OPT ==
    <<[Alt(<<
        Each(<<digit, digit, digit, digit, {"-"}, digit, digit, {"-"}, digit,
               digit>>) \o <<Plus(In(space))>>,
        Each(<<Range(lower), Range(lower), Range(lower)>>)
            \o <<Plus(In(space)), In(digit), Opt(In(digit)), Plus(In(space))>>
            \o Each(<<digit, digit, digit, digit>>) \o <<Plus(In(space))>>
       >>) EXCEPT !.q = "?"]>>

PLAYER_NAME_GROUP ==
    <<Alt(<<
        <<In(quote)>> \o Cap("name", <<Plus(NotIn(quote))>>) \o <<In(quote)>>,
        Cap("name2", <<NotIn(space \cup {"|"}), Lazy(Star(NotIn({"|"}))),
                       NotIn(space \cup {"|"})>>)
      >>)>>

KILL_RE ==
    <<Bol>> \o TS_PREFIX_OPT \o Cap("ts", HMS) \o <<Lazy(Star(Dot))>>
    \o Cap("victim", <<Lazy(Plus(Dot))>>) \o Lit(<<" ", "w", "a", "s", " ", "k", "i", "l", "l", "e", "d", " ", "b", "y", " ">>)
    \o Cap("killer", <<Lazy(Plus(Dot))>>) \o <<B>>

KILL_RE_NIT ==
    Lit(<<"P", "l", "a", "y", "e", "r">>) \o <<Plus(In(space)), In(quote)>>
    \o Cap("victim", <<Plus(NotIn(quote))>>) \o <<In(quote)>>
    \o <<[Alt(<<<<Star(In(space))>> \o Lit(<<"(", "D", "E", "A", "D", ")">>)>>) EXCEPT !.q = "?"]>>
    \o <<Lazy(Star(Dot))>> \o Lit(<<"k", "i", "l", "l", "e", "d", " ", "b", "y", " ", "P", "l", "a", "y", "e", "r">>)
    \o <<Plus(In(space)), In(quote)>>
    \o Cap("killer", <<Plus(NotIn(quote))>>) \o <<In(quote)>>

\* ^TS_PREFIX_OPT(ts)\s+\|\s*Player\s+PLAYER_NAME_GROUP[^\n]*?\b, the common
\* head of CONNECT_RE and DISCONNECT_RE
STATUS_HEAD ==
    <<Bol>> \o TS_PREFIX_OPT \o Cap("ts", HMS)
    \o <<Plus(In(space)), In({"|"}), Star(In(space))>> \o Lit(<<"P", "l", "a", "y", "e", "r">>)
    \o <<Plus(In(space))>> \o PLAYER_NAME_GROUP \o <<Lazy(Star(NotIn({"\n"})))>>

\* the same pattern without the \b in front of the alternatives
CONNECT_RE_unbounded ==
    STATUS_HEAD
    \o <<Alt(<<Lit(<<"i", "s">>) \o <<Plus(In(space))>> \o Lit(<<"c", "o", "n", "n", "e", "c", "t", "e", "d">>),
               Lit(<<"h", "a", "s">>) \o <<Plus(In(space))>> \o Lit(<<"c", "o", "n", "n", "e", "c", "t", "e", "d">>),
               Lit(<<"h", "a", "s">>) \o <<Plus(In(space))>> \o Lit(<<"b", "e", "e", "n">>)
                   \o <<Plus(In(space))>> \o Lit(<<"c", "o", "n", "n", "e", "c", "t", "e", "d">>),
               Lit(<<"c", "o", "n", "n", "e", "c", "t", "e", "d">>)>>),
         B>>

CONNECT_RE ==
    STATUS_HEAD
    \o <<B,
         Alt(<<Lit(<<"i", "s">>) \o <<Plus(In(space))>> \o Lit(<<"c", "o", "n", "n", "e", "c", "t", "e", "d">>),
               Lit(<<"h", "a", "s">>) \o <<Plus(In(space))>> \o Lit(<<"c", "o", "n", "n", "e", "c", "t", "e", "d">>),
               Lit(<<"h", "a", "s">>) \o <<Plus(In(space))>> \o Lit(<<"b", "e", "e", "n">>)
                   \o <<Plus(In(space))>> \o Lit(<<"c", "o", "n", "n", "e", "c", "t", "e", "d">>),
               Lit(<<"c", "o", "n", "n", "e", "c", "t", "e", "d">>)>>),
         B>>

DISCONNECT_RE ==
    STATUS_HEAD
    \o <<B,
         [Alt(<<Lit(<<"h", "a", "s">>) \o <<Plus(In(space))>> \o Lit(<<"b", "e", "e", "n">>)
                    \o <<Plus(In(space))>>,
                Lit(<<"w", "a", "s">>) \o <<Plus(In(space))>>>>) EXCEPT !.q = "?"]>>
    \o Lit(<<"d", "i", "s", "c", "o", "n", "n", "e", "c", "t", "e", "d">>) \o <<B>>

\* <\s*(x),\s*(y),\s*(z)\s*>, the common tail of the scanner's patterns
XYZ ==
    <<In({"<"}), Star(In(space))>> \o Cap("x", NUM)
    \o <<In({","}), Star(In(space))>> \o Cap("y", NUM)
    \o <<In({","}), Star(In(space))>> \o Cap("z", NUM)
    \o <<Star(In(space)), In({">"})>>

\* Player\s+"(name)", the common head of the scanner's patterns
QUOTED_PLAYER ==
    Lit(<<"P", "l", "a", "y", "e", "r">>) \o <<Plus(In(space)), In({"\""})>>
    \o Cap("name", <<Plus(NotIn({"\""}))>>) \o <<In({"\""})>>

\* ^TS_PREFIX_OPT\d\d:\d\d:\d\d\s+\|\s+Player\s+["'](name)["']\s*\(
\* (?:id=[^)]*?)?\s*(?:pos|position)\s*=\s*<\s*(x)\s*,\s*(z)\s*,\s*[-\d.]+\s*>\)
PL_PLAYER_RE ==
    <<Bol>> \o TS_PREFIX_OPT \o HMS
    \o <<Plus(In(space)), In({"|"}), Plus(In(space))>> \o Lit(<<"P", "l", "a", "y", "e", "r">>)
    \o <<Plus(In(space)), In(quote)>> \o Cap("name", <<Plus(NotIn(quote))>>)
    \o <<In(quote), Star(In(space)), In({"("}),
         [Alt(<<Lit(<<"i", "d", "=">>) \o <<Lazy(Star(NotIn({")"})))>>>>) EXCEPT !.q = "?"],
         Star(In(space)),
         Alt(<<Lit(<<"p", "o", "s">>), Lit(<<"p", "o", "s", "i", "t", "i", "o", "n">>)>>),
         Star(In(space)), In({"="}), Star(In(space)), In({"<"}), Star(In(space))>>
    \o Cap("x", NUM) \o <<Star(In(space)), In({","}), Star(In(space))>>
    \o Cap("z", NUM) \o <<Star(In(space)), In({","}), Star(In(space)),
                           Plus(In(digit \cup {"-", "."})), Star(In(space))>>
    \o Lit(<<">", ")">>)

RE_POS == QUOTED_PLAYER \o <<Lazy(Star(NotIn({"<"})))>> \o Lit(<<"p", "o", "s", "=">>) \o XYZ

RE_TP ==
    QUOTED_PLAYER \o <<Lazy(Star(NotIn({"<"})))>> \o Lit(<<"t", "e", "l", "e", "p", "o", "r", "t">>)
    \o <<Lazy(Star(NotIn({":"}))), In({":"}), Lazy(Star(Dot))>> \o Lit(<<"t", "o", ":">>)
    \o <<Star(In(space))>> \o XYZ

RE_FALLBACK == QUOTED_PLAYER \o <<Lazy(Star(NotIn({"\n"})))>> \o XYZ

\* sub in str, of Python
contains(str, sub) ==
    \E k \in 1..(Len(str) - Len(sub) + 1) : SubSeq(str, k, k + Len(sub) - 1) = sub

\* scanner.scan_adm_line of a player without an entry in _last_xz: the point
\* handed to append_point, none when the line is not a positional line
scan_line(str) ==
    LET m1 == search(RE_POS, str)
        m2 == IF m1.ok THEN m1 ELSE search(RE_TP, str)
        m == IF ~m2.ok /\ (\/ contains(str, <<"p", "e", "r", "f", "o", "r", "m", "e", "d">>)
                           \/ contains(str, <<"p", "l", "a", "c", "e", "d">>)
                           \/ contains(str, <<"t", "e", "l", "e", "p", "o", "r", "t">>)
                           \/ contains(str, <<"w", "a", "s", " ", "t", "e", "l", "e", "p", "o", "r", "t", "e", "d">>)
                           \/ contains(str, <<"c", "o", "n", "n", "e", "c", "t", "e", "d">>))
             THEN search(RE_FALLBACK, str)
             ELSE m2
    IN  IF ~m.ok THEN {}
        ELSE {[name |-> strip(group(m, str, "name")),
               x |-> float(group(m, str, "x")),
               y |-> float(group(m, str, "y")),
               z |-> float(group(m, str, "z"))]}

\* the kill loop of check_kills_and_status on one line: the (victim, killer)
\* appended to kills, none when neither pattern matches
kill_of(str) ==
    LET m1 == search(KILL_RE, str)
        m == IF m1.ok THEN m1 ELSE search(KILL_RE_NIT, str)
    IN  IF ~m.ok THEN {}
        ELSE {[victim |-> strip(group(m, str, "victim")),
               killer |-> strip(group(m, str, "killer"))]}

_mname(m, str) ==
    strip(IF group(m, str, "name") # <<>> THEN group(m, str, "name")
          ELSE group(m, str, "name2"))

_norm(name) == casefold(strip(name))

\* the loop body of _latest_playerlist on one line of a block: the entry of
\* tmp_players it writes, none when the line is no player line
player_of(str) ==
    LET pm == search(PL_PLAYER_RE, str)
    IN  IF ~pm.ok THEN {}
        ELSE {[name |-> _norm(group(pm, str, "name")),
               x |-> float(group(pm, str, "x")),
               z |-> float(group(pm, str, "z"))]}

\* the status loop of check_kills_and_status on one line with the pattern
\* connect_re for CONNECT_RE: the status, the name and the time it records,
\* none when the line is neither
status_with(connect_re, str) ==
    LET mc == search(connect_re, str)
        md == search(DISCONNECT_RE, str)
    IN  IF mc.ok
        THEN {[status |-> "connected", nm |-> _norm(_mname(mc, str)),
               ts |-> group(mc, str, "ts")]}
        ELSE IF md.ok
        THEN {[status |-> "disconnected", nm |-> _norm(_mname(md, str)),
               ts |-> group(md, str, "ts")]}
        ELSE {}

status_of(str) == status_with(CONNECT_RE, str)

\* 12:00:12 | Player "Bar" was killed by Player "Foo"
KillLine ==
    <<"1", "2", ":", "0", "0", ":", "1", "2", " ", "|", " ", "P", "l", "a",
      "y", "e", "r", " ", "\"", "B", "a", "r", "\"", " ", "w", "a", "s", " ",
      "k", "i", "l", "l", "e", "d", " ", "b", "y", " ", "P", "l", "a", "y",
      "e", "r", " ", "\"", "F", "o", "o", "\"">>

\* 12:00:01 | Player "Foo" (pos=<100.0, 5.0, 200.0>) ...
PosLine ==
    <<"1", "2", ":", "0", "0", ":", "0", "1", " ", "|", " ", "P", "l", "a",
      "y", "e", "r", " ", "\"", "F", "o", "o", "\"", " ", "(", "p", "o", "s",
      "=", "<", "1", "0", "0", ".", "0", ",", " ", "5", ".", "0", ",", " ",
      "2", "0", "0", ".", "0", ">", ")", " ", ".", ".", ".">>

\* 12:00:05 | Player "Foo" is connected
ConnectLine ==
    <<"1", "2", ":", "0", "0", ":", "0", "5", " ", "|", " ", "P", "l", "a",
      "y", "e", "r", " ", "\"", "F", "o", "o", "\"", " ", "i", "s", " ", "c",
      "o", "n", "n", "e", "c", "t", "e", "d">>

\* 12:00:09 | Player "Foo" has been disconnected
DisconnectLine ==
    <<"1", "2", ":", "0", "0", ":", "0", "9", " ", "|", " ", "P", "l", "a",
      "y", "e", "r", " ", "\"", "F", "o", "o", "\"", " ", "h", "a", "s", " ",
      "b", "e", "e", "n", " ", "d", "i", "s", "c", "o", "n", "n", "e", "c",
      "t", "e", "d">>

\* other lines of an ADM log
OtherLines ==
    {<<"1", "2", ":", "0", "0", ":", "1", "2", " ", "|", " ", "P", "l", "a",
       "y", "e", "r", " ", "\"", "B", "a", "r", "\"", " ", "(", "D", "E", "A",
       "D", ")", " ", "(", "i", "d", "=", "X", " ", "p", "o", "s", "=", "<",
       "1", ".", "0", ",", " ", "2", ".", "0", ",", " ", "3", ".", "0", ">",
       ")", " ", "k", "i", "l", "l", "e", "d", " ", "b", "y", " ", "P", "l",
       "a", "y", "e", "r", " ", "\"", "F", "o", "o", "\"">>,
     <<"2", "0", "2", "6", "-", "0", "1", "-", "0", "1", " ", "1", "2", ":",
       "0", "0", ":", "0", "5", " ", "|", " ", "P", "l", "a", "y", "e", "r",
       " ", "\"", "F", "o", "o", "\"", " ", "h", "a", "s", " ", "c", "o", "n",
       "n", "e", "c", "t", "e", "d">>,
     <<"1", "2", ":", "0", "0", ":", "0", "7", " ", "|", " ", "P", "l", "a",
       "y", "e", "r", " ", "\"", "B", "a", "r", "\"", " ", "w", "a", "s", " ",
       "d", "i", "s", "c", "o", "n", "n", "e", "c", "t", "e", "d">>,
     <<"1", "2", ":", "0", "0", ":", "0", "3", " ", "|", " ", "P", "l", "a",
       "y", "e", "r", " ", "\"", "B", "a", "r", "\"", " ", "w", "a", "s", " ",
       "t", "e", "l", "e", "p", "o", "r", "t", "e", "d", " ", "f", "r", "o",
       "m", ":", " ", "<", "1", ",", " ", "2", ",", " ", "3", ">", " ", "t",
       "o", ":", " ", "<", "4", ",", " ", "5", ",", " ", "6", ">">>,
     <<"1", "2", ":", "0", "0", ":", "0", "2", " ", "|", " ", "P", "l", "a",
       "y", "e", "r", " ", "\"", "F", "o", "o", "\"", " ", "p", "l", "a", "c",
       "e", "d", " ", "F", "i", "r", "e", "p", "l", "a", "c", "e", " ", "<",
       "7", ",", " ", "8", ",", " ", "9", ">">>,
     <<"1", "2", ":", "0", "0", ":", "0", "4", " ", "|", " ", "#", "#", "#",
       "#", "#", " ", "P", "l", "a", "y", "e", "r", "L", "i", "s", "t", " ",
       "l", "o", "g", ":", " ", "1", " ", "p", "l", "a", "y", "e", "r", "s">>,
     <<"A", "d", "m", "i", "n", "L", "o", "g", " ", "s", "t", "a", "r", "t",
       "e", "d", " ", "o", "n", " ", "2", "0", "2", "6", "-", "0", "1", "-",
       "0", "1", " ", "a", "t", " ", "1", "2", ":", "0", "0", ":", "0", "0">>,
     <<"1", "2", ":", "0", "0", ":", "1", "2", " ", "|", " ", "B", "a", "r",
       " ", "w", "a", "s", " ", "k", "i", "l", "l", "e", "d", " ", "b", "y",
       " ", "F", "o", "o">>,
     <<"1", "2", ":", "0", "0", ":", "0", "6", " ", "|", " ", "P", "l", "a",
       "y", "e", "r", " ", "F", "o", "o", " ", "c", "o", "n", "n", "e", "c",
       "t", "e", "d">>,
     <<"1", "2", ":", "0", "0", ":", "1", "0", " ", "|", " ", "P", "l", "a",
       "y", "e", "r", " ", "\"", "B", "a", "r", "\"", " ", "(", "p", "o", "s",
       "=", "<", "-", "3", ".", "5", ",", " ", "0", ",", " ", "1", "2", ">",
       ")">>,
     <<"1", "2", ":", "0", "0", ":", "1", "1", " ", "|", " ", "P", "l", "a",
       "y", "e", "r", " ", "\"", "F", "o", "o", "\"", " ", "i", "s", " ", "r",
       "e", "c", "o", "n", "n", "e", "c", "t", "e", "d">>,
     <<"1", "2", ":", "0", "0", ":", "1", "2", "B", "a", "r", " ", "w", "a",
       "s", " ", "k", "i", "l", "l", "e", "d", " ", "b", "y", " ", "F", "o",
       "o">>}

\* 12:00:04 | Player "Foo" (id=aB1= pos=<1.5, 2.5, 3.5>)
PlayerListLine ==
    <<"1", "2", ":", "0", "0", ":", "0", "4", " ", "|", " ", "P", "l", "a",
      "y", "e", "r", " ", "\"", "F", "o", "o", "\"", " ", "(", "i", "d", "=",
      "a", "B", "1", "=", " ", "p", "o", "s", "=", "<", "1", ".", "5", ",",
      " ", "2", ".", "5", ",", " ", "3", ".", "5", ">", ")">>

Lines ==
    {KillLine, PosLine, ConnectLine, DisconnectLine, PlayerListLine}
        \cup OtherLines

\* the poller hands the line to the scanner
scan_adm_line ==
    /\ "pos" \notin parsed.done
    /\ parsed' = [parsed EXCEPT !.done = @ \cup {"pos"}, !.pos = scan_line(ln)]
    /\ UNCHANGED <<ln, notParse>>

\* the kill watcher reads the line in its kill loop
kill_scan ==
    /\ "kill" \notin parsed.done
    /\ parsed' = [parsed EXCEPT !.done = @ \cup {"kill"}, !.kill = kill_of(ln)]
    /\ UNCHANGED <<ln, notParse>>

\* the kill watcher reads the line in its status loop
status_scan ==
    /\ "status" \notin parsed.done
    /\ parsed' = [parsed EXCEPT !.done = @ \cup {"status"}, !.status = status_of(ln)]
    /\ UNCHANGED <<ln, notParse>>

\* the updater reads the line in a PlayerList block
playerlist_scan ==
    /\ pl_entry = <<>>
    /\ pl_entry' = <<player_of(ln)>>
    /\ UNCHANGED <<ln, parsed, pollerVars, botVars, chooseVars, trackVars,
                   bountyVars, plVars, fed, dbVars, pulseVars>>

InitParse ==
    /\ PollerIdle /\ BotIdle /\ ChooseIdle /\ TrackIdle /\ BountyIdle /\ LateIdle
    /\ ln \in Lines
    /\ parsed = [done |-> {}, pos |-> {}, kill |-> {}, status |-> {}]

NextParse ==
    \/ scan_adm_line
    \/ kill_scan
    \/ status_scan
    \/ playerlist_scan

SpecParse == InitParse /\ [][NextParse]_vars

\* ------------------------------------ bounty.py: the PlayerList signature
\* A line of the ADM file is <<"H", n>>, the header of the n-th PlayerList
\* block (its clock time sets it apart from the other headers), <<"P", name>>,
\* a player line, <<"F", 0>>, the footer, or <<"x", 0>>, any other line.
notPl ==
    <<pollerVars, botVars, chooseVars, trackVars, bountyVars, parseVars, fed,
      dbVars, pulseVars, pl_entry>>

AdmNames == {"foo", "bar"}

Headers(s) == {k \in DOMAIN s : s[k][1] = "H"}

\* _read_adm_lines with one candidate file: the last limit lines
_read_adm_lines == LastN(admfile, limit)

\* the lines of the block whose header is lines[i]: up to the footer or the
\* next header
block_lines(ls, i) ==
    LET stop == {j \in (i + 1)..Len(ls) : ls[j][1] \in {"F", "H"}}
        end == IF stop = {} THEN Len(ls)
               ELSE (CHOOSE j \in stop : \A o \in stop : j <= o) - 1
    IN  SubSeq(ls, i, end)

\* _latest_playerlist: the signature (the index of the header in lines, the
\* number of players, the text of the block; the digest is taken to be
\* injective) and the block, <<>> for None
_latest_playerlist(ls) ==
    IF Headers(ls) = {} THEN [sig |-> <<>>, block |-> <<>>]
    ELSE LET i == CHOOSE k \in Headers(ls) : \A o \in Headers(ls) : k >= o
             block == block_lines(ls, i)
             tmp_players == {block[k][2] : k \in {j \in DOMAIN block : block[j][1] = "P"}}
         IN  [sig |-> <<i - 1, Cardinality(tmp_players), block>>, block |-> block]

\* the server writes one more line to the file
adm_write ==
    /\ Len(admfile) < MaxAdm
    /\ \E l \in {<<"H", Cardinality(Headers(admfile)) + 1>>, <<"F", 0>>, <<"x", 0>>}
               \cup {<<"P", n>> : n \in AdmNames} :
          admfile' = Append(admfile, l)
    /\ UNCHANGED <<pl_now, pl_prev, notPl>>

\* update_guild reads the tail and takes the latest PlayerList block
read_playerlist ==
    /\ pl_prev' = pl_now
    /\ pl_now' = _latest_playerlist(_read_adm_lines)
    /\ UNCHANGED <<admfile, notPl>>

InitPl == PollerIdle /\ RestIdle

NextPl ==
    \/ adm_write
    \/ read_playerlist

SpecPl == InitPl /\ [][NextPl]_vars

\* ------------------------------ log_fetcher.py: the fingerprint cache alone
\* The lines are the numbers 1, 2, ... in decimal: their fingerprints differ.
notSeen ==
    <<serverVars, events, state, latest_file, offset, buffer_last, pc, stop_event,
      tickVars, histVars, botVars, chooseVars, trackVars, bountyVars, parseVars,
      plVars, dbVars, pulseVars, pl_entry>>

\* str(n)
RECURSIVE decimal(_)
decimal(n) ==
    IF n < 10 THEN <<digits[n + 1]>>
    ELSE decimal(n \div 10) \o <<digits[(n % 10) + 1]>>

\* the line callback path hands the line of number k to _remember_line
remember(k) ==
    LET r == _remember_line(decimal(k), seen_set, seen_queue)
    IN  /\ seen_set' = r.sset
        /\ seen_queue' = r.squeue
        /\ fed' = [n |-> IF k > fed.n THEN k ELSE fed.n, line |-> decimal(k),
                   ok |-> r.ok]
        /\ UNCHANGED notSeen

\* a line not handed over before
remember_new == fed.n < MaxFed /\ remember(fed.n + 1)

\* the first line or the latest line, once more
remember_again == fed.n > 0 /\ \E k \in {1, fed.n} : remember(k)

\* the cache of a poller that starts, and the cache after the first
\* MAX_SEEN_HASHES - 1 lines, each with a fingerprint of its own
InitSeen ==
    /\ files = <<<<>>>>
    /\ observe = "off"
    /\ events = 0
    /\ state = [latest_file |-> 0, offset |-> 0]
    /\ latest_file = 0
    /\ offset = 0
    /\ buffer_last = <<>>
    /\ pc = "top"
    /\ stop_event = FALSE
    /\ chosen_api_url = FALSE
    /\ prev_offset = 0
    /\ lines = <<>>
    /\ idx = 0
    /\ delivered = <<>>
    /\ readLog = {}
    /\ cursorLog = <<>>
    /\ BotIdle /\ ChooseIdle /\ TrackIdle /\ BountyIdle /\ ParseIdle /\ PlIdle
    /\ DbIdle /\ PulseIdle /\ EntryIdle
    /\ \E n \in {0, MAX_SEEN_HASHES - 1} :
          /\ seen_queue = [k \in 1..n |-> _line_fingerprint(decimal(k))]
          /\ seen_set = {_line_fingerprint(decimal(k)) : k \in 1..n}
          /\ fed = [n |-> n, line |-> <<>>, ok |-> FALSE]

NextSeen ==
    \/ remember_new
    \/ remember_again

SpecSeen == InitSeen /\ [][NextSeen]_vars

\* --------------------------- bounty.py: the bounty database and its writers
\* data/bounties.json is read whole by _db() and written whole by _save_db().
\* A bounty is <<target, number>>: the number tells the bounties set on one
\* target apart. Every killer is linked, so every claimed bounty is paid.
notDb ==
    <<pollerVars, botVars, chooseVars, trackVars, bountyVars, parseVars, plVars,
      fed, pulseVars, pl_entry>>

\* the bounties of doc that the kill lines of the tail close, oldest line
\* first: open_bounties is the list loaded at the start of the run
paid(open) ==
    LET hit == SelectSeq(kill_lines, LAMBDA k : \E b \in open : b[1] = k.victim)
    IN  [i \in DOMAIN hit |->
            [bounty |-> CHOOSE b \in open : b[1] = hit[i].victim,
             kill |-> hit[i]]]

\* update_guild up to its first await: doc = _db(), under the guild's lock
update_guild_load ==
    /\ db_runs < MaxRuns
    /\ u_doc = <<>>
    /\ db_open # {}
    /\ u_doc' = <<db_open>>
    /\ db_runs' = db_runs + 1
    /\ UNCHANGED <<db_open, w_doc, kill_lines, awards, created, notDb>>

\* update_guild after its awaits: _save_db(doc)
update_guild_save ==
    /\ u_doc # <<>>
    /\ db_open' = u_doc[1]
    /\ u_doc' = <<>>
    /\ UNCHANGED <<w_doc, kill_lines, awards, created, db_runs, notDb>>

\* check_kills_and_status up to its first await: doc = _db(), the kill lines
\* of the tail pay and remove the loaded bounties of their victims
check_kills_load ==
    /\ db_runs < MaxRuns
    /\ w_doc = <<>>
    /\ db_open # {}
    /\ LET won == paid(db_open)
       IN  /\ awards' = awards \o won
           /\ w_doc' = <<db_open \ {won[i].bounty : i \in DOMAIN won}>>
    /\ db_runs' = db_runs + 1
    /\ UNCHANGED <<db_open, u_doc, kill_lines, created, notDb>>

\* check_kills_and_status after its awaits: _save_db(doc)
check_kills_save ==
    /\ w_doc # <<>>
    /\ db_open' = w_doc[1]
    /\ w_doc' = <<>>
    /\ UNCHANGED <<u_doc, kill_lines, awards, created, db_runs, notDb>>

\* /svbounty on target t: refused while a bounty on t is open
svbounty(t) ==
    /\ db_runs < MaxRuns
    /\ created[t] < MaxBounties
    /\ ~\E b \in db_open : b[1] = t
    /\ db_open' = db_open \cup {<<t, created[t] + 1>>}
    /\ created' = [created EXCEPT ![t] = @ + 1]
    /\ db_runs' = db_runs + 1
    /\ UNCHANGED <<u_doc, w_doc, kill_lines, awards, notDb>>

\* the server logs that t was killed; born is the number of bounties set on t
\* by then
kill_logged(t) ==
    /\ db_runs < MaxRuns
    /\ Len(kill_lines) < MaxKills
    /\ kill_lines' = Append(kill_lines, [victim |-> t, born |-> created[t]])
    /\ db_runs' = db_runs + 1
    /\ UNCHANGED <<db_open, u_doc, w_doc, awards, created, notDb>>

\* the log grows: the oldest kill line leaves the tail that the watcher reads
tail_moves ==
    /\ kill_lines # <<>>
    /\ kill_lines' = Tail(kill_lines)
    /\ UNCHANGED <<db_open, u_doc, w_doc, awards, created, db_runs, notDb>>

InitDb == PollerIdle /\ RestIdle

NextDb ==
    \/ update_guild_load
    \/ update_guild_save
    \/ check_kills_load
    \/ check_kills_save
    \/ \E t \in Targets : svbounty(t)
    \/ \E t \in Targets : kill_logged(t)
    \/ tail_moves

SpecDb == InitDb /\ [][NextDb]_vars

\* ------------------------ live_pulse.py: the registration with the tracker
notPulse ==
    <<pollerVars, botVars, chooseVars, trackVars, bountyVars, parseVars, plVars,
      fed, dbVars, pl_entry>>

\* tracker.subscribe_to_points
subscribe_to_points(subs, callback) == Append(subs, callback)

\* live_pulse.init, called by main() of bot.py and by BountyCog.__init__
live_pulse_init ==
    /\ Len(point_subs) < MaxInits
    /\ pulse_bot' = TRUE
    /\ point_subs' = subscribe_to_points(point_subs, "_on_point")
    /\ UNCHANGED <<pending, invoked, notPulse>>

\* append_point accepted a point and created its _notify_point task
point_accepted ==
    /\ Len(invoked) + pending < MaxPoints
    /\ pending' = pending + 1
    /\ UNCHANGED <<point_subs, pulse_bot, invoked, notPulse>>

\* the event loop runs the oldest _notify_point task; no callback raises
notify_runs ==
    /\ pending > 0
    /\ pending' = pending - 1
    /\ invoked' = Append(invoked, _notify_point(point_subs, {}).called)
    /\ UNCHANGED <<point_subs, pulse_bot, notPulse>>

InitPulse == PollerIdle /\ RestIdle

NextPulse ==
    \/ live_pulse_init
    \/ point_accepted
    \/ notify_runs

SpecPulse == InitPulse /\ [][NextPulse]_vars

\* ------------------------------------------------------------------ claims
DiscoverInputs ==
    {<<l, a, z>> : l \in SUBSET (1..Len(files)), a \in BOOLEAN, z \in BOOLEAN}

ReadInputs ==
    {<<r, h, q>> : r \in ReadReplies, h \in HttpReplies, q \in BOOLEAN}

\* C1 as stated: for one file name the offset never goes down except to 0, and
\* the discovery of a tick sets it to 0 exactly when the chosen name differs
\* from the cursor's or the offset is greater than the file's size.
C1_ResetIffNameOrSize ==
    [][/\ (latest_file' = latest_file /\ offset' < offset) => offset' = 0
       /\ \A i \in DiscoverInputs :
            TickDiscoverWith(i[1], i[2], i[3]) =>
              LET name == chosen(i[1], i[2]).name
                  cond == name # latest_file \/ offset > Len(files[name])
              IN  /\ cond => offset' = 0
                  /\ offset' # offset => cond]_vars

\* C1 amended: the size is the one the SIZE reply of the tick reports; with no
\* SIZE reply the offset is kept. No other step than the discovery lowers it.
C1_ResetIffNameOrReportedSize ==
    [][/\ (latest_file' = latest_file /\ offset' < offset) => offset' = 0
       /\ offset' < offset => pc = "top"
       /\ \A i \in DiscoverInputs :
            TickDiscoverWith(i[1], i[2], i[3]) =>
              LET name == chosen(i[1], i[2]).name
                  sz == _ftp_size(name, i[3])
                  cond == name # latest_file \/ (sz # None /\ offset > sz[1])
              IN  /\ cond => offset' = 0 /\ state'.offset = 0
                  /\ offset' # offset => cond]_vars

\* a poller that has read lines of file 1 finds it truncated and is back at 0
C1_Witness ==
    /\ pc = "read"
    /\ Len(files) = 1
    /\ latest_file = 1
    /\ files[1] = <<>>
    /\ seen_queue # <<>>
    /\ offset = 0

\* C3: the persisted cursor is the in-memory cursor at every step, a restart
\* leaves the persisted cursor as it is, and the discovery of a tick whose
\* chosen file is the persisted file keeps the persisted offset unless that
\* offset is greater than the file's size.
C3_PersistedIsInMemory ==
    /\ [](state = [latest_file |-> latest_file, offset |-> offset])
    /\ [][/\ (pc' = "top" /\ pc # "sleep") => state' = state
          /\ \A i \in DiscoverInputs :
               (/\ TickDiscoverWith(i[1], i[2], i[3])
                /\ chosen(i[1], i[2]).name = state.latest_file
                /\ state.offset <= Len(files[state.latest_file]))
               => /\ latest_file' = state.latest_file
                  /\ offset' = state.offset
                  /\ state' = state]_vars

\* a poller restarted after a read is about to read from the persisted offset
C3_Witness ==
    /\ pc = "read"
    /\ seen_queue = <<>>
    /\ offset > 0
    /\ state.offset = offset

\* C4: the loop ends only at its test with the stop event set; a failed
\* connect, login or cwd, an empty listing, and a read or a QUIT that fails
\* end the tick in the sleep, and the sleep leads back to the loop test.
C4_TransportErrorNeverExits ==
    [][/\ pc' = "done" => (pc = "top" /\ stop_event)
       /\ (pc = "top" /\ ~stop_event /\ pc' # pc) => pc' \in {"sleep", "read"}
       /\ \A i \in ReadInputs :
            (/\ TickReadWith(i[1], i[2], i[3])
             /\ (i[1] = "raised" \/ i[2] = "failed" \/ ~i[3]))
            => pc' \in {"sleep", "deliver"}
       /\ (pc = "sleep" /\ pc' # pc) => pc' = "top"]_vars

\* a tick ended in the sleep with bytes of the current file unread
C4_Witness ==
    /\ pc = "sleep"
    /\ ~stop_event
    /\ latest_file # 0
    /\ offset < Len(files[latest_file])

C6_RefusedTwiceFetchesWholeFile ==
    [][\A h \in HttpReplies :
         (/\ TickReadWith("refused_twice", h, TRUE)
          /\ offset < Len(files[latest_file]))
         => /\ offset' = Len(files[latest_file])
            /\ lines' = splitlines(Tail0(files[latest_file], offset))
            /\ pc' = "deliver"]_vars

\* ------------------------------------------------ claims on the histories
\* the lines the poller has in hand, and every line of at most two bytes
SomeLines ==
    {lines[i] : i \in 1..Len(lines)}
        \cup {<<>>} \cup {<<b>> : b \in Alphabet}
        \cup {<<b, c>> : b \in Alphabet \ {NL}, c \in Alphabet \ {NL}}

\* C7: the callback is called for a line only when its fingerprint is not
\* among the remembered ones, and the fingerprint is remembered from then on;
\* the set holds the last MAX_SEEN_HASHES fingerprints at most; a line given
\* to _remember_line twice in a row is new the first time (unless remembered
\* already) and not new the second time.
C7_ForwardedAtMostOnce ==
    [][/\ delivered' # delivered =>
            /\ Len(delivered') = Len(delivered) + 1
            /\ _line_fingerprint(delivered'[Len(delivered')].line) \notin seen_set
            /\ _line_fingerprint(delivered'[Len(delivered')].line) \in seen_set'
       /\ Len(seen_queue) <= MAX_SEEN_HASHES
       /\ seen_set = {seen_queue[i] : i \in 1..Len(seen_queue)}
       /\ \A l \in SomeLines :
            LET r1 == _remember_line(l, seen_set, seen_queue)
                r2 == _remember_line(l, r1.sset, r1.squeue)
            IN  /\ r1.ok = (_line_fingerprint(l) \notin seen_set)
                /\ ~r2.ok]_vars

\* the line just handled was not forwarded: an earlier call of the callback
\* carried its fingerprint
C7_Witness ==
    /\ idx > 0
    /\ idx <= Len(lines)
    /\ rstrip(lines[idx]) # <<>>
    /\ \A k \in 1..Len(delivered) :
         ~(/\ delivered[k].file = latest_file
           /\ delivered[k].pos = prev_offset
           /\ delivered[k].idx = idx - 1)
    /\ \E k \in 1..Len(delivered) :
         _line_fingerprint(delivered[k].line) = _line_fingerprint(lines[idx])

\* r is a line that comes before q in their file
Before(r, q) ==
    /\ r.file = q.file
    /\ r.pos < q.pos \/ (r.pos = q.pos /\ r.idx < q.idx)

\* C8 as stated, for the first call of each line: when the callback is called
\* for a line that comes before an already delivered line of the same file,
\* that earlier line has itself been delivered before.
C8_DeliveredInFileOrder ==
    \A j \in 1..Len(delivered) : \A k \in (j + 1)..Len(delivered) :
        Before(delivered[k], delivered[j])
        => \E i \in 1..(j - 1) :
             /\ delivered[i].file = delivered[k].file
             /\ delivered[i].pos = delivered[k].pos
             /\ delivered[i].idx = delivered[k].idx

\* C9 as stated: when the poller leaves a file for a newer one, it has read
\* the file it leaves to its end.
C9_OldFileDrainedBeforeNew ==
    [][(latest_file # 0 /\ latest_file' > latest_file)
       => offset >= Len(files[latest_file])]_vars

\* C10 as stated: between ticks, every line with text of a blob whose read
\* moved the cursor has been given to the callback, itself or a line with the
\* same fingerprint.
C10_AtLeastOnce ==
    pc \in {"top", "read", "sleep", "done"}
    => \A e \in readLog :
         rstrip(e[2]) # <<>>
         => \E k \in 1..Len(delivered) :
              _line_fingerprint(delivered[k].line) = _line_fingerprint(e[2])

\* the cursors of the scenario: (A,0), (A,120), (A,260), (B,0)
ScenarioCursors == <<<<1, 0>>, <<1, 120>>, <<1, 260>>, <<2, 0>>>>

\* C2: in the scenario run the persisted cursor takes the values (A,0),
\* (A,120), (A,260), (B,0) in that order and stays on B afterwards, and once
\* the callback has been called for a line of B it is not called for a line
\* of A again.
C2_ScenarioCursorSequence ==
    /\ \A i \in 1..Len(cursorLog) :
         IF i <= Len(ScenarioCursors)
         THEN cursorLog[i] = ScenarioCursors[i]
         ELSE cursorLog[i][1] = 2
    /\ \A j \in 1..Len(delivered) : \A k \in j..Len(delivered) :
         delivered[j].file = 2 => delivered[k].file = 2

\* the run has gone through the four cursors, lines of both ticks on A and a
\* line of B were given to the callback
C2_Witness ==
    /\ Len(cursorLog) > Len(ScenarioCursors)
    /\ \E k \in 1..Len(delivered) : delivered[k].file = 1 /\ delivered[k].pos = 0
    /\ \E k \in 1..Len(delivered) : delivered[k].file = 1 /\ delivered[k].pos = 120
    /\ \E k \in 1..Len(delivered) : delivered[k].file = 2
    /\ pc = "top"

\* the poll_guild tasks of guild g that have not returned, and those in a tick
Live(g) == {i \in 1..Len(loops[g]) : loops[g][i] # "done"}
InTick(g) == {i \in 1..Len(loops[g]) : loops[g][i] = "tick"}

\* C11: a guild never has two poll_guild tasks, however often on_ready fires,
\* so at most one loop of the guild is alive and at most one tick of the guild
\* is in progress; a tick starts only at the loop test, which a loop reaches
\* from its entry or from the sleep that ends the previous tick.
C11_OneLoopPerGuild ==
    /\ [](\A g \in Guilds :
            /\ Len(loops[g]) <= 1
            /\ Cardinality(Live(g)) <= 1
            /\ Cardinality(InTick(g)) <= 1)
    /\ [][\A g \in Guilds : \A i \in 1..Len(loops[g]) :
            /\ (loops'[g][i] = "tick" /\ loops[g][i] # "tick") => loops[g][i] = "top"
            /\ (loops'[g][i] = "top" /\ loops[g][i] # "top")
               => loops[g][i] \in {"new", "sleep"}]_vars

\* on_ready has fired twice, both start_polls tasks have run, and the one
\* loop of a guild is in a tick
C11_Witness ==
    /\ readies >= 2
    /\ starting = 0
    /\ \E g \in Guilds : loops[g] = <<"tick">>

\* C12: while the stop event is set the loop only moves on from where it is:
\* the tick in progress to its end, the end of the tick to the sleep, the
\* sleep to the loop test, the loop test to the exit; no tick starts and the
\* loop, once left, stays left.
C12_NoTickAfterStop ==
    [][(stop_event /\ stop_event' /\ pc' # pc)
       => <<pc, pc'>> \in {<<"read", "deliver">>, <<"read", "sleep">>,
                           <<"deliver", "sleep">>, <<"sleep", "top">>,
                           <<"top", "done">>}]_vars

\* the stop event is set and the tick in progress has handled all its lines
C12_Witness ==
    /\ stop_event
    /\ pc = "sleep"
    /\ lines # <<>>
    /\ idx = Len(lines)

\* the names at least one listing shows, and the time a file is ranked by:
\* its modification time, else the timestamp of its name, else none (0)
Reported == {n \in ListNames : listing.mlsd[n] >= 0} \cup listing.nlst \cup listing.lst
RankTime(n) == IF listing.mlsd[n] > 0 THEN listing.mlsd[n] ELSE _parse_name_ts(n)

\* n is a newest reported file: no reported file has a later time, and when n
\* has no time at all no reported name comes after n
Newest(n) ==
    /\ n \in Reported
    /\ \A q \in Reported : RankTime(q) <= RankTime(n)
    /\ RankTime(n) = 0 => \A q \in Reported : q <= n

ApiWins ==
    /\ listing.api # 0
    /\ \/ Reported = {}
       \/ /\ _parse_name_ts(listing.api) # 0
          /\ \A q \in Reported : RankTime(q) < _parse_name_ts(listing.api)

TrackLen(pid) == Len(tracks[pid]) + Len(_buffers[pid])

\* append_point of pid and xz is the call being made
AppendCall(pid, xz) ==
    /\ calls' = calls + 1
    /\ last_call'.op = "append"
    /\ last_call'.pid = pid
    /\ last_call'.xz = xz

\* C14: an append_point that follows at once an append_point of the same
\* player with the same (x,z) leaves the length of the player's track, stored
\* plus buffered points, as it was after the first call.
C14_SecondAppendKeepsLength ==
    [][\A pid \in Players :
         (last_call.op = "append" /\ last_call.pid = pid
            /\ AppendCall(pid, last_call.xz))
         => Len(tracks'[pid]) + Len(_buffers'[pid]) = TrackLen(pid)]_vars


\* a player's track: the stored points followed by the buffered points
Track(pid) == tracks[pid] \o _buffers[pid]

\* C15: no two consecutive points of a player's track, the stored points
\* followed by the buffered points, have the same (x,z).
C15_NoAdjacentEqualXZ ==
    \A pid \in Players : \A i \in 1..(Len(Track(pid)) - 1) :
        Track(pid)[i].xz # Track(pid)[i + 1].xz

\* a stored point is followed by a buffered one, and a repeated (x,z) was
\* turned away by the look at the last saved point
C15_Witness ==
    /\ \E pid \in Players : tracks[pid] # <<>> /\ _buffers[pid] # <<>>
    /\ last_call.op = "append"
    /\ _buffers[last_call.pid] = <<>>
    /\ tracks[last_call.pid] # <<>>
    /\ accepted[last_call.pid] < calls
    /\ \A pid \in Players : accepted[pid] = Len(Track(pid))


\* the numbers of the points of a player's track
TrackIds(pid) == {Track(pid)[i].n : i \in 1..Len(Track(pid))}

\* the numbers of the last MAX_POINTS_PER_PLAYER points append_point queued
\* for the player: what the cap alone leaves of them
Kept(pid) ==
    {n \in 1..accepted[pid] : n > accepted[pid] - MAX_POINTS_PER_PLAYER}

\* C16: no point that append_point accepted is lost because save_file failed:
\* the points of a failed flush stay in the buffer for the next flush, so each
\* of the player's most recent points (up to the cap) is stored or buffered.
C16_NoAcceptedPointLost ==
    \A pid \in Players : Kept(pid) \subseteq TrackIds(pid)


\* C17: load_track without window and limit returns every point append_point
\* accepted for the player before the call, up to the track cap, and leaves
\* the player's buffer empty.
C17_LoadReturnsAccepted ==
    last_call.op = "load" =>
        /\ Kept(last_call.pid) \subseteq
             {last_call.returned[i].n : i \in 1..Len(last_call.returned)}
        /\ _buffers[last_call.pid] = <<>>


\* C18: a buffered point is written to storage once _FLUSH_INTERVAL has
\* elapsed since the last flush, whichever player it belongs to: when two
\* intervals have gone by since the last flush no point is left in a buffer.
C18_FlushedWithinInterval ==
    (now - _last_flush_ts) >= _FLUSH_INTERVAL + _FLUSH_INTERVAL =>
        \A pid \in Players : _buffers[pid] = <<>>


\* C19: when append_point returns, the buffer of its player holds fewer than
\* _MAX_BUFFER_POINTS points.
C19_BufferBelowThreshold ==
    [][\A pid \in Players : \A xz \in XZ :
         AppendCall(pid, xz) => Len(_buffers'[pid]) < _MAX_BUFFER_POINTS]_vars

\* the buffer filled up within one flush interval and was flushed by the call
\* that queued the point reaching the threshold
C19_Witness ==
    /\ last_call.op = "append"
    /\ accepted[last_call.pid] > _MAX_BUFFER_POINTS
    /\ _buffers[last_call.pid] = <<>>
    /\ tracks[last_call.pid] # <<>>
    /\ tracks[last_call.pid][Len(tracks[last_call.pid])].n = accepted[last_call.pid]
    /\ now = _FLUSH_INTERVAL

\* the points a flush in this step puts together: the stored ones, the
\* buffered ones and the one this step queues
Flushed(pid) ==
    Track(pid) \o (IF accepted'[pid] > accepted[pid]
                   THEN <<[xz |-> last_call'.xz, n |-> accepted'[pid]]>>
                   ELSE <<>>)

\* C20: a stored track never has more than MAX_POINTS_PER_PLAYER points, and
\* a flush that writes it leaves the most recent MAX_POINTS_PER_PLAYER of the
\* stored and flushed points, in their order.
C20_StoredIsMostRecent ==
    /\ [](\A pid \in Players : Len(tracks[pid]) <= MAX_POINTS_PER_PLAYER)
    /\ [][\A pid \in Players :
            tracks'[pid] # tracks[pid] =>
              LET all == Flushed(pid)
                  k == Len(tracks'[pid])
              IN  /\ k = IF Len(all) > MAX_POINTS_PER_PLAYER
                         THEN MAX_POINTS_PER_PLAYER ELSE Len(all)
                  /\ \A i \in 1..k : tracks'[pid][i] = all[Len(all) - k + i]]_vars

\* a flush overflowed: the oldest point is gone, the most recent are stored
C20_Witness ==
    \E pid \in Players :
        /\ Len(tracks[pid]) = MAX_POINTS_PER_PLAYER
        /\ tracks[pid][1].n > 1
        /\ _buffers[pid] = <<>>
        /\ TrackIds(pid) = Kept(pid)


UpdaterTick == ticks' = ticks + 1 /\ observed'.op = "updater"

\* this step is a tick of the updater or of the watcher
AnyTick == ticks' = ticks + 1

\* C22: a target absent from the threshold number of consecutive distinct
\* PlayerList snapshots is Offline, and it goes Offline once: an updater tick
\* that finds an Offline target still absent from the PlayerList, with no
\* status line logged since the tick before, announces nothing and leaves
\* it Offline; only a later snapshot with the target brings it back.
C22_OfflineOnceAtThreshold ==
    /\ [](bounty.pl_absent >= STALE_MOVEMENT_SCANS => ~bounty.online)
    /\ [][(/\ UpdaterTick
           /\ observed.op # "none"
           /\ ~bounty.online
           /\ ~coords_from_pl(adm)
           /\ adm.status_id = observed.adm.status_id)
          => (announced' = announced /\ ~bounty'.online)]_vars

\* C23: the absence count that drives the flip to Offline advances only when
\* the PlayerList signature differs from the one last checked: an updater
\* tick that finds an Online target and the snapshot it has already checked
\* neither raises the count nor flips the target to Offline for absence.
C23_CountOnlyOnNewSnapshot ==
    [][(/\ UpdaterTick
        /\ bounty.online
        /\ adm.pl_sig # 0
        /\ adm.pl_sig = bounty.last_pl_seen_ts
        /\ adm.status # "disconnected")
       => /\ bounty'.stale_scans <= bounty.stale_scans
          /\ bounty'.pl_absent <= bounty.pl_absent
          /\ (bounty.online => bounty'.online)]_vars


\* the number of offline announcements in a sequence of announcements
Offlines(out) == Cardinality({i \in 1..Len(out) : out[i] = "offline"})

\* C24: one Disconnect line makes the target Offline with one offline
\* announcement: a tick of the updater or of the watcher that reads again the
\* log the updater read in the tick before, its latest status line of the
\* target a Disconnect, announces no further offline and leaves the target
\* Offline.
C24_DisconnectAnnouncedOnce ==
    [][(/\ AnyTick
        /\ observed.op = "updater"
        /\ adm = observed.adm
        /\ adm.status = "disconnected")
       => (Offlines(announced') = Offlines(announced) /\ ~bounty'.online)]_vars


\* C25: an announcement is made only when the online state of the target
\* changes, and an updater tick over the log the updater read in the tick
\* before (same latest status line, same PlayerList block) announces nothing.
C25_AnnounceOnlyOnChange ==
    /\ [][(AnyTick /\ announced' # announced)
          => (Len(announced') = Len(announced) + 1
              /\ bounty'.online # bounty.online)]_vars
    /\ [][(UpdaterTick /\ observed.op = "updater" /\ adm = observed.adm)
          => announced' = announced]_vars


\* C26: the tick that first reads a new Connect line of the target sets the
\* target Online and its absence counters pl_absent and stale_scans to 0,
\* whatever the target's state was: in the watcher by the end of the tick, in
\* the updater by the end of the connect/disconnect override.
C26_ConnectResetsCounters ==
    [][(/\ AnyTick
        /\ adm.status = "connected"
        /\ adm.status_id # observed.adm.status_id)
       => LET b1 == IF observed'.op = "watcher" THEN bounty'
                    ELSE explicit_status([b |-> bounty, out |-> <<>>], adm).b
          IN  b1.online /\ b1.pl_absent = 0 /\ b1.stale_scans = 0]_vars


\* the number of online announcements in a sequence of announcements
Onlines(out) == Cardinality({i \in 1..Len(out) : out[i] = "online"})

\* C27: an updater tick that finds a new PlayerList block (signature
\* advanced) with the target in it leaves the absence counters at 0, and a
\* target that was Offline is Online after it, with one online announcement.
C27_PresentSnapshotResets ==
    [][(/\ UpdaterTick
        /\ adm.pl_sig # 0
        /\ adm.pl_sig # bounty.last_pl_seen_ts
        /\ adm.in_pl)
       => /\ bounty'.pl_absent = 0
          /\ bounty'.stale_scans = 0
          /\ ~bounty.online =>
               /\ bounty'.online
               /\ Onlines(announced') = Onlines(announced) + 1]_vars

\* C28: the first updater tick after registration sets a target Offline, with
\* one offline announcement, when the latest PlayerList block does not list
\* it or its latest status line is a Disconnect, whether or not a coordinate
\* of the target is known.
C28_BootstrapOffline ==
    [][(/\ UpdaterTick
        /\ ticks = 0
        /\ \/ (adm.pl_sig # 0 /\ ~adm.in_pl)
           \/ adm.status = "disconnected")
       => /\ ~bounty'.online
          /\ Offlines(announced') = Offlines(announced) + 1]_vars

\* the names of the two players of the lines
Foo == <<"F", "o", "o">>
Bar == <<"B", "a", "r">>

\* C29 as stated: the kill loop makes of the line
\* `12:00:12 | Player "Bar" was killed by Player "Foo"` exactly one kill, with
\* victim Bar and killer Foo.
C29_KillLineParsed ==
    (ln = KillLine /\ "kill" \in parsed.done)
        => parsed.kill = {[victim |-> Bar, killer |-> Foo]}

\* a whole number as float returns it
whole(k) == [neg |-> FALSE, whole |-> k, dec |-> <<>>]

StatusEvents == {[status |-> e.status, nm |-> e.nm] : e \in parsed.status}

\* C30: the position line yields the one position (Foo, 100, 5, 200) and no
\* kill and no status; the connect line yields the one connect of Foo and no
\* position and no kill; the disconnect line yields the one disconnect of Foo
\* and no position and no kill, and CONNECT_RE does not match it.
C30_EachLineOneEvent ==
    /\ ln = PosLine =>
          /\ "pos" \in parsed.done =>
                parsed.pos = {[name |-> Foo, x |-> whole(100), y |-> whole(5),
                               z |-> whole(200)]}
          /\ parsed.kill = {} /\ parsed.status = {}
    /\ ln = ConnectLine =>
          /\ "status" \in parsed.done =>
                StatusEvents = {[status |-> "connected", nm |-> _norm(Foo)]}
          /\ parsed.pos = {} /\ parsed.kill = {}
    /\ ln = DisconnectLine =>
          /\ "status" \in parsed.done =>
                StatusEvents = {[status |-> "disconnected", nm |-> _norm(Foo)]}
          /\ parsed.pos = {} /\ parsed.kill = {}
          /\ ~search(CONNECT_RE, ln).ok

\* the disconnect line went through the scanner, the kill loop and the status
\* loop, and the status loop recorded the disconnect of Foo
C30_Witness ==
    /\ ln = DisconnectLine
    /\ parsed.done = {"pos", "kill", "status"}
    /\ StatusEvents = {[status |-> "disconnected", nm |-> _norm(Foo)]}

\* C31 as stated, for two reads in a row: when the latest PlayerList block of
\* the second read has the lines it had in the first, _latest_playerlist
\* returns the signature it returned in the first.
C31_SameBlockSameSignature ==
    (pl_prev.block # <<>> /\ pl_now.block = pl_prev.block)
        => pl_now.sig = pl_prev.sig

\* C32: the recent-fingerprint set holds at most MAX_SEEN_HASHES fingerprints
\* and exactly those of the queue, each once; a line whose fingerprint is in
\* the set changes neither the set nor the queue; a new fingerprint goes to
\* the end of the queue, and when the queue is full the oldest one leaves.
C32_BoundedFifoCache ==
    /\ [](/\ Cardinality(seen_set) <= MAX_SEEN_HASHES
          /\ seen_set = Range(seen_queue)
          /\ Len(seen_queue) = Cardinality(seen_set))
    /\ [][LET fp == _line_fingerprint(fed'.line)
          IN  fed' # fed =>
                 IF fp \in seen_set
                 THEN ~fed'.ok /\ seen_set' = seen_set /\ seen_queue' = seen_queue
                 ELSE /\ fed'.ok
                      /\ seen_queue' =
                            IF Len(seen_queue) = MAX_SEEN_HASHES
                            THEN Append(Tail(seen_queue), fp)
                            ELSE Append(seen_queue, fp)
                      /\ seen_set' = Range(seen_queue')]_vars

\* the queue was full, the oldest fingerprint left, and its line was taken as
\* new after that
C32_Witness ==
    /\ fed.n > MAX_SEEN_HASHES
    /\ Len(seen_queue) = MAX_SEEN_HASHES
    /\ fed.line = decimal(1) /\ fed.ok

\* the lines of the file content f that the server has finished: those with
\* their line end
CompleteLines(f) ==
    LET done == {k \in DOMAIN f : f[k] = NL}
        last == IF done = {} THEN 0 ELSE CHOOSE k \in done : \A o \in done : k >= o
    IN  Range(splitlines(SubSeq(f, 1, last)))

\* C33 as stated: a string handed to the line callback is a complete line of
\* the source file, not the part of a line the server is still writing.
C33_DeliversCompleteLines ==
    [][delivered' # delivered =>
          delivered'[Len(delivered')].line \in CompleteLines(files[latest_file])]_vars

\* C34 as stated: once the cursor is on a file, it never moves to an older
\* file (the files are numbered in the order of their names).
C34_NeverBackToOlderFile ==
    [][latest_file' >= latest_file]_vars

\* C35 as stated: a line with text, read from a file position from which no
\* line was handed to the callback before, is handed to the callback, also
\* when a line of the same text was handed over earlier.
C35_OnlyReplaysDropped ==
    [][(/\ pc = "deliver"
        /\ idx' = idx + 1
        /\ rstrip(lines[idx + 1]) # <<>>
        /\ ~\E k \in DOMAIN delivered :
               /\ delivered[k].file = latest_file
               /\ delivered[k].pos = prev_offset
               /\ delivered[k].idx = idx)
          => delivered' # delivered]_vars


\* C36 as stated: a bounty that check_kills_and_status removed from the open
\* list is not put back by a run that loaded the database earlier (the open
\* list gains only bounties that /svbounty sets), and each bounty is paid out
\* at most once.
C36_RemovedStaysRemoved ==
    /\ [][\A b \in db_open' \ db_open : b[2] = created'[b[1]] /\ b[2] > created[b[1]]]_vars
    /\ [](\A i, j \in DOMAIN awards : awards[i].bounty = awards[j].bounty => i = j)

\* C37 as stated: a bounty is paid out only for a kill line written after the
\* bounty was set.
C37_OnlyLaterKillsPay ==
    \A i \in DOMAIN awards : awards[i].kill.born >= awards[i].bounty[2]


\* C38: between the runs of update_guild and of check_kills_and_status, the
\* online flag of the open bounty is true exactly when last_state_announce is
\* "online".
C38_OnlineIffAnnouncedOnline ==
    bounty.online = (bounty.last_state_announce = "online")

\* the target went offline, came back and went offline again, and both the
\* updater and the watcher have run
C38_Witness ==
    /\ ~bounty.online
    /\ Len(announced) >= 3
    /\ observed.op = "updater"
    /\ ticks >= 3


\* C39 as stated: however many times live_pulse.init is called, _on_point is
\* registered with the tracker once, and a notified point calls it at most
\* once.
C39_OnPointRegisteredOnce ==
    /\ Cardinality({k \in DOMAIN point_subs : point_subs[k] = "_on_point"}) <= 1
    /\ \A n \in DOMAIN invoked :
          Cardinality({k \in DOMAIN invoked[n] : invoked[n][k] = "_on_point"}) <= 1


\* C40 as stated: for one line, the position the scanner stores in the track
\* and the position _latest_playerlist takes from the line have the same x
\* and the same z.
C40_SameCoordinates ==
    \A p \in parsed.pos : \A e \in UNION Range(pl_entry) :
        p.x = e.x /\ p.z = e.z

====
